---- MODULE Spec2Model ----
(***************************************************************************)
(* Model of the CDT rate collector (hectronix2005/Mejor_Inversion):        *)
(*   - the scrape orchestrator (scrapers/orchestrator.py): a thread pool   *)
(*     runs one adapter per bank, the results dict is filled in completion *)
(*     order, get_ranking merges, ranks and computes statistics,           *)
(*     save_results persists the ranking;                                  *)
(*   - the in-memory cache of the API (api/app.py): two module globals,    *)
(*     _cached_data and _cache_time, read by get_rates_data and written by *)
(*     get_rates_data and refresh_data;                                    *)
(*   - the fetch loop of BaseScraper (_get_page / _post_page).             *)
(*                                                                         *)
(* Rates are integers in hundredths of a percent (8.50 is 850): every rate *)
(* the adapters emit is a two-decimal literal or the result of              *)
(* round(x, 2).  Time is in seconds.  A rate record carries the fields the *)
(* modelled code reads (bank_code, term_days, rate_ea) and min_amount; the *)
(* remaining CDTRate fields are copied through unchanged by every          *)
(* operation modelled here.                                                *)
(***************************************************************************)
EXTENDS Integers, Sequences, FiniteSets, TLC

(***************************************************************************)
(* Bounds of the model                                                     *)
(***************************************************************************)
\* number of entries of SCRAPERS the modelled cycle dispatches
NumBanks == 3

\* refresh requests handled in one run of the model
MaxRefreshes == 1

\* how many times the clock advances in one run of the model
MaxTicks == 2

\* Optional values: None is the empty sequence, a present value v is <<v>>
None == <<>>

Some(v) == <<v>>

\* the text str() gives None, and the value of an unset Optional[str] field
NoMessage == "None"

(***************************************************************************)
(* Program constants                                                       *)
(***************************************************************************)
\* CACHE_DURATION, seconds
CACHE_DURATION == 300

\* the clock advances by half the cache duration, so that ages below, at and
\* above CACHE_DURATION all occur
TickStep == CACHE_DURATION \div 2

\* the refresh requests in progress (one handler thread)
Refreshers == {"r1"}

\* run_scraping: CDTOrchestrator(max_workers=5)
max_workers == 5

\* the first keys of SCRAPERS, in dict (insertion) order
SCRAPERS == <<"bancolombia", "davivienda", "bbva", "ban100", "finandina">>

\* scrape_all: bank_codes = list(SCRAPERS.keys())
bank_codes == SubSeq(SCRAPERS, 1, NumBanks)

Banks == {bank_codes[i] : i \in 1..Len(bank_codes)}

\* config.STANDARD_TERMS
STANDARD_TERMS == <<30, 60, 90, 180, 360, 540, 720>>

\* a ranking loop that leaves out the two longest terms
RankingTermsShort == <<30, 60, 90, 180, 360>>

\* get_ranking: for term in [30, 60, 90, 180, 360, 540, 720]
RankingTerms == <<30, 60, 90, 180, 360, 540, 720>>

(***************************************************************************)
(* Generic sequence helpers                                                *)
(***************************************************************************)
Range(s) == {s[i] : i \in 1..Len(s)}

\* s[:n]
Take(s, n) == SubSeq(s, 1, IF n < Len(s) THEN n ELSE Len(s))

\* x placed in the descending-sorted sequence s after every element whose
\* field f is >= its own: the position a stable sort with reverse=True gives
\* an element that came later in the input
RECURSIVE InsertDesc(_, _, _)
InsertDesc(s, x, f) ==
    IF s = <<>> THEN <<x>>
    ELSE IF Head(s)[f] >= x[f] THEN <<Head(s)>> \o InsertDesc(Tail(s), x, f)
         ELSE <<x>> \o s

\* x placed in the ascending-sorted sequence s after every element whose
\* field f is <= its own (stable sort, reverse=False)
RECURSIVE InsertAsc(_, _, _)
InsertAsc(s, x, f) ==
    IF s = <<>> THEN <<x>>
    ELSE IF Head(s)[f] <= x[f] THEN <<Head(s)>> \o InsertAsc(Tail(s), x, f)
         ELSE <<x>> \o s

\* the sorted prefix d is bound to its value before the rest is inserted
RECURSIVE SortDescFrom(_, _, _)
SortDescFrom(done, rest, f) ==
    IF rest = <<>> THEN done
    ELSE CHOOSE r \in {SortDescFrom(d, Tail(rest), f) :
                          d \in {InsertDesc(done, Head(rest), f)}} : TRUE

RECURSIVE SortAscFrom(_, _, _)
SortAscFrom(done, rest, f) ==
    IF rest = <<>> THEN done
    ELSE CHOOSE r \in {SortAscFrom(d, Tail(rest), f) :
                          d \in {InsertAsc(done, Head(rest), f)}} : TRUE

\* list.sort(key=lambda x: x[f]): stable
SortAsc(s, f) == SortAscFrom(<<>>, s, f)

\* mutant of SortDesc: reverse=True forgotten
SortDescForgotReverse(s, f) == SortAsc(s, f)

\* list.sort(key=lambda x: x[f], reverse=True): stable, equal keys keep
\* their input order
SortDesc(s, f) == SortDescFrom(<<>>, s, f)

\* sum(r['rate_ea'] for r in s)
RECURSIVE SumRates(_)
SumRates(s) == IF s = <<>> THEN 0 ELSE Head(s).rate_ea + SumRates(Tail(s))

\* max(r['rate_ea'] for r in s), s not empty
RECURSIVE MaxRate(_)
MaxRate(s) ==
    IF Len(s) = 1 THEN s[1].rate_ea
    ELSE CHOOSE r \in {IF Head(s).rate_ea >= m THEN Head(s).rate_ea ELSE m :
                          m \in {MaxRate(Tail(s))}} : TRUE

\* mutant of MinRate: the first element taken for the smallest
MinRateOfFirst(s) == Head(s).rate_ea

\* min(r['rate_ea'] for r in s), s not empty
RECURSIVE MinRate(_)
MinRate(s) ==
    IF Len(s) = 1 THEN s[1].rate_ea
    ELSE CHOOSE r \in {IF Head(s).rate_ea <= m THEN Head(s).rate_ea ELSE m :
                          m \in {MinRate(Tail(s))}} : TRUE

(***************************************************************************)
(* Rate records and adapter results                                        *)
(***************************************************************************)
\* CDTRate(...).to_dict()
CDTRate(b, t, r, m) == [bank_code |-> b, term_days |-> t, rate_ea |-> r, min_amount |-> m]

\* mutant of DedupKey: the rate is left out of the key
DedupKeyWithoutRate(x) == <<x.bank_code, x.term_days>>

\* the key the adapters deduplicate on
DedupKey(x) == <<x.bank_code, x.term_days, x.rate_ea>>

\* ScrapingResult(...)
ScrapingResult(b, ok, rs, err) ==
    [bank_code |-> b, success |-> ok, rates |-> rs, error_message |-> err]

\* The hand-maintained (term, rate) tables of the registered adapters
\* (BancolombiaApiScraper, DaviviendaScraper, BBVAScraper, Ban100Scraper,
\* FinandinaScraper): the rates list their scrape() builds.
StaticRates(b) ==
    CASE b = "bancolombia" ->
           <<CDTRate(b, 30, 850, 500000), CDTRate(b, 60, 900, 500000), CDTRate(b, 90, 950, 500000)>>
      [] b = "davivienda" ->
           <<CDTRate(b, 30, 820, 500000), CDTRate(b, 60, 880, 500000), CDTRate(b, 90, 930, 500000)>>
      [] b = "bbva" ->
           <<CDTRate(b, 30, 800, 1000000), CDTRate(b, 60, 850, 1000000), CDTRate(b, 90, 900, 1000000)>>
      [] b = "ban100" ->
           <<CDTRate(b, 30, 950, 100000), CDTRate(b, 60, 1000, 100000), CDTRate(b, 90, 1030, 100000)>>
      [] OTHER ->
           <<CDTRate(b, 30, 920, 100000), CDTRate(b, 60, 970, 100000), CDTRate(b, 90, 1020, 100000)>>

\* A rates list in which the 30-day offer appears twice (same bank_code,
\* term_days and rate_ea, another min_amount): what a scrape() that does not
\* deduplicate its own matches hands to run().
RepeatedRates(b) ==
    LET t == StaticRates(b)
    IN  t \o <<CDTRate(b, t[1].term_days, t[1].rate_ea, 0)>>

\* The ScrapingResults the abstract method scrape() of an adapter for bank b
\* may return to run(): a successful one with the bank's table, a successful
\* one with a repeated record, or the failure GenericTableScraper.scrape
\* reports when the page could not be fetched.
ScrapeReturns(b) ==
    { ScrapingResult(b, TRUE, StaticRates(b), NoMessage),
      ScrapingResult(b, TRUE, RepeatedRates(b), NoMessage),
      ScrapingResult(b, FALSE, <<>>, "No se pudo obtener la pagina") }

\* str(e) of the exceptions an adapter may raise
Faults == {"FakeUserAgentError"}

\* run(), except branch: the result built from a fault raised inside scrape()
RunCaught(b, e) == ScrapingResult(b, FALSE, <<>>, e)

(***************************************************************************)
(* get_all_rates, get_ranking: merge, rank, statistics                     *)
(***************************************************************************)
\* d[k] = v on an insertion-ordered dict held as a sequence of results
DictSet(d, k, v) ==
    IF \E i \in 1..Len(d) : d[i].bank_code = k
    THEN [i \in 1..Len(d) |-> IF d[i].bank_code = k THEN v ELSE d[i]]
    ELSE Append(d, v)

\* get_all_rates: the rates of the successful results, in dict order
RECURSIVE get_all_rates(_)
get_all_rates(res) ==
    IF res = <<>> THEN <<>>
    ELSE (IF Head(res).success THEN Head(res).rates ELSE <<>>) \o get_all_rates(Tail(res))

\* get_rates_by_term
get_rates_by_term(res, term_days) ==
    SelectSeq(get_all_rates(res), LAMBDA r : r.term_days = term_days)

\* get_best_rates(term_days, top_n); term_days = 0 stands for None (both falsy)
get_best_rates(res, term_days, top_n) ==
    LET rates == IF term_days # 0 THEN get_rates_by_term(res, term_days)
                 ELSE get_all_rates(res)
    IN  Take(SortDesc(rates, "rate_ea"), top_n)

\* round(sum / n, 2) in hundredths; when sum / n lies exactly half way
\* between two hundredths the binary value of the float quotient decides the
\* direction, which tieUp stands for
RoundedMean(sum, n, tieUp) ==
    LET q == sum \div n
        r == sum % n
    IN  IF 2 * r < n THEN q
        ELSE IF 2 * r > n THEN q + 1
        ELSE IF tieUp THEN q + 1 ELSE q

IsTie(sum, n) == n > 0 /\ 2 * (sum % n) = n

\* an int key of the by_term dict, and the str key json gives it
IntKey(n) == <<"int", n>>

StrKey(n) == <<"str", n>>

\* statistics of get_ranking
Statistics(all_rates, tieUp) ==
    IF all_rates # <<>>
    THEN [average_rate |-> RoundedMean(SumRates(all_rates), Len(all_rates), tieUp),
          max_rate |-> MaxRate(all_rates),
          min_rate |-> MinRate(all_rates)]
    ELSE [average_rate |-> 0, max_rate |-> 0, min_rate |-> 0]

\* mutant of RankingsByTerm: the list of a term is sorted ascending
RankingsByTermAscending(all_rates) ==
    [k \in {IntKey(RankingTerms[i]) : i \in 1..Len(RankingTerms)} |->
        SortAsc(SelectSeq(all_rates, LAMBDA r : r.term_days = k[2]), "rate_ea")]

\* rankings_by_term of get_ranking
RankingsByTerm(all_rates) ==
    [k \in {IntKey(RankingTerms[i]) : i \in 1..Len(RankingTerms)} |->
        SortDesc(SelectSeq(all_rates, LAMBDA r : r.term_days = k[2]), "rate_ea")]

\* mutant of TotalBanks: every result counted, failed ones too
TotalBanksCountsAll(res) == Len(res)

\* total_banks of get_ranking
TotalBanks(res) == Len(SelectSeq(res, LAMBDA r : r.success))

\* get_ranking at time t
get_ranking(res, t, tieUp) ==
    LET all_rates == SortDesc(get_all_rates(res), "rate_ea")
    IN  [generated_at |-> t,
         total_banks |-> TotalBanks(res),
         total_rates |-> Len(all_rates),
         statistics |-> Statistics(all_rates, tieUp),
         top_10 |-> Take(all_rates, 10),
         by_term |-> RankingsByTerm(all_rates),
         all_rates |-> all_rates]

\* json.dump(ranking, f): the document written; the keys of a dict are
\* written as strings
json_dump(agg) ==
    [agg EXCEPT !.by_term =
        [k \in {StrKey(j[2]) : j \in DOMAIN agg.by_term} |->
            agg.by_term[CHOOSE j \in DOMAIN agg.by_term : j[2] = k[2]]]]

\* json.load(f) of a document
json_load(doc) == doc

\* the history file name: strftime('%Y%m%d_%H%M%S') of the time, one name per
\* second
HistoryName(t) == t

(***************************************************************************)
(* State                                                                   *)
(***************************************************************************)
VARIABLES
    now,         \* the wall clock, in seconds
    pool,        \* self.max_workers of the orchestrator
    phase,       \* where run_scraping stands
    submitted,   \* how many of bank_codes scrape_all has submitted to the pool
    futures,     \* per bank: the state of its future and the exception it holds
    results,     \* self.results, in insertion order
    collected,   \* per bank: what the as_completed loop logged for its future
    ranking,     \* the ranking get_ranking returned to save_results
    best,        \* what the last get_best_rates call returned
    rates_file,  \* RATES_FILE: None when absent, else the document in it
    history,     \* HISTORY_DIR: file name -> document
    fetch,       \* one _get_page / _post_page call: its position and its trace
    parse,       \* one table row a scraper parses: its cell texts and what the
                 \* parse functions made of them
    cached_data, \* the global _cached_data of the API
    cache_time,  \* the global _cache_time of the API
    refresh,     \* per refresh request: where refresh_data stands, its local ranking
    refreshes,   \* how many refresh requests were started
    got,         \* the get_rates_data call of the step just taken (NoCall when it made
                 \* none): what it returned, whether it loaded RATES_FILE, the age it
                 \* computed, the two globals when it returned
    response     \* the response sent by the step just taken, None when it sent none

cycleVars == <<pool, phase, submitted, futures, results, collected, ranking, best>>

fileVars == <<rates_file, history>>

apiVars == <<cached_data, cache_time, refresh, refreshes, got, response>>

vars == <<now, cycleVars, fileVars, fetch, parse, apiVars>>

Future(st, e) == [state |-> st, exception |-> e]

\* a new CDTOrchestrator before scrape_all
CycleInit ==
    /\ phase = "idle"
    /\ submitted = 0
    /\ futures = [b \in Banks |-> Future("unsubmitted", NoMessage)]
    /\ results = <<>>
    /\ collected = [b \in Banks |-> "pending"]
    /\ ranking = None
    /\ best = None

FilesInit ==
    /\ rates_file = None
    /\ history = <<>>

\* no get_rates_data call was made
NoCall ==
    [called |-> FALSE, ret |-> None, loaded |-> FALSE, raised |-> FALSE, age |-> None,
     data |-> None, time |-> None]

\* the API process at start: nothing cached, no request in progress
ApiInit ==
    /\ cached_data = None
    /\ cache_time = None
    /\ refresh = [r \in Refreshers |-> [pc |-> "idle", ranking |-> None]]
    /\ refreshes = 0
    /\ got = NoCall
    /\ response = None

(***************************************************************************)
(* BaseScraper._get_page / _post_page: the retry loop                      *)
(***************************************************************************)
\* SCRAPING_CONFIG['retry_attempts']
retry_attempts == 3

\* SCRAPING_CONFIG['retry_delay'], seconds
retry_delay == 5

\* the requests.RequestException subclasses session.get / session.post and
\* raise_for_status raise: connection error, timeout, non-2xx status
TransportFaults == {"ConnectionError", "Timeout", "HTTPError"}

\* what a call returns on success: _get_page the parsed page; _post_page
\* response.json() when the content type is JSON, else the parsed page
Documents(method) == IF method = "post" THEN {"soup", "json"} ELSE {"soup"}

RequestEvent(outcome) == [ev |-> "request", outcome |-> outcome]

SleepEvent(secs) == [ev |-> "sleep", secs |-> secs]

FetchState(pc, method, attempt, log, ret) ==
    [pc |-> pc, method |-> method, attempt |-> attempt, log |-> log, ret |-> ret]

FetchInit == fetch = FetchState("idle", "get", 0, <<>>, None)

\* no row is being parsed
NoRow == [pc |-> "idle"]

ParseInit == parse = NoRow

\* mutant of SleepsBeforeRetry: the delay is slept after the last attempt too
SleepsAfterEveryFailure(attempt) == attempt < retry_attempts

\* "if attempt < SCRAPING_CONFIG['retry_attempts'] - 1" of the except branch
SleepsBeforeRetry(attempt) == attempt < retry_attempts - 1

\* _get_page(url) or _post_page(url, ...) is called: the for loop starts
\* with attempt = 0
FetchCall ==
    /\ fetch.pc \in {"idle", "returned", "raised"}
    /\ \E m \in {"get", "post"} :
          fetch' = FetchState("request", m, 0, <<>>, None)
    /\ UNCHANGED <<now, cycleVars, fileVars, parse, apiVars>>

\* the request of this attempt succeeds (2xx): the document is returned
RequestSucceeds ==
    /\ fetch.pc = "request"
    /\ \E d \in Documents(fetch.method) :
          fetch' = [fetch EXCEPT !.pc = "returned",
                                 !.log = Append(@, RequestEvent("ok")),
                                 !.ret = Some(d)]
    /\ UNCHANGED <<now, cycleVars, fileVars, parse, apiVars>>

\* the request of this attempt raises a RequestException: it is logged, and
\* unless this was the last attempt the delay is slept next
RequestFails ==
    /\ fetch.pc = "request"
    /\ \E e \in TransportFaults :
          fetch' = [fetch EXCEPT !.pc = IF SleepsBeforeRetry(fetch.attempt)
                                        THEN "sleep" ELSE "next",
                                 !.log = Append(@, RequestEvent(e))]
    /\ UNCHANGED <<now, cycleVars, fileVars, parse, apiVars>>

\* the response arrived but building the document raises something that is
\* no RequestException (the parser): the except clause does not match and
\* the exception leaves the call
ParseRaises ==
    /\ fetch.pc = "request"
    /\ fetch' = [fetch EXCEPT !.pc = "raised",
                              !.log = Append(@, RequestEvent("ParserError"))]
    /\ UNCHANGED <<now, cycleVars, fileVars, parse, apiVars>>

\* time.sleep(SCRAPING_CONFIG['retry_delay'])
Sleep ==
    /\ fetch.pc = "sleep"
    /\ fetch' = [fetch EXCEPT !.pc = "next", !.log = Append(@, SleepEvent(retry_delay))]
    /\ UNCHANGED <<now, cycleVars, fileVars, parse, apiVars>>

\* the for loop takes the next attempt of range(retry_attempts), or is
\* exhausted and the call returns None
NextAttempt ==
    /\ fetch.pc = "next"
    /\ fetch' = IF fetch.attempt + 1 < retry_attempts
                THEN [fetch EXCEPT !.pc = "request", !.attempt = @ + 1]
                ELSE [fetch EXCEPT !.pc = "returned", !.ret = None]
    /\ UNCHANGED <<now, cycleVars, fileVars, parse, apiVars>>

(***************************************************************************)
(* One cycle: run_scraping                                                 *)
(***************************************************************************)
Running == {b \in Banks : futures[b].state = "running"}

Finished == {b \in Banks : futures[b].state \in {"returned", "raised"}}

\* run_scraping: CDTOrchestrator(max_workers=5), scrape_all entered
StartCycle ==
    /\ phase = "idle"
    /\ phase' = "dispatching"
    /\ UNCHANGED <<now, pool, submitted, futures, results, collected, ranking, best, fileVars>>

\* scrape_all: executor.submit(self.scrape_bank, code) for the next code of
\* bank_codes; after the last one the as_completed loop starts
Submit ==
    /\ phase = "dispatching"
    /\ submitted < Len(bank_codes)
    /\ submitted' = submitted + 1
    /\ futures' = [futures EXCEPT ![bank_codes[submitted + 1]] = Future("queued", NoMessage)]
    /\ phase' = IF submitted + 1 = Len(bank_codes) THEN "collecting" ELSE "dispatching"
    /\ UNCHANGED <<now, pool, results, collected, ranking, best, fileVars>>

\* a pool that starts a worker although max_workers of them are busy
HasFreeWorkerOffByOne(busy, size) == busy <= size

\* ThreadPoolExecutor(max_workers=size): a queued task is taken only while
\* fewer than size workers are busy
HasFreeWorker(busy, size) == busy < size

\* ThreadPoolExecutor: a free worker takes the oldest queued task
WorkerTakes(b) ==
    /\ futures[b].state = "queued"
    /\ \A i \in 1..Len(bank_codes) :
          futures[bank_codes[i]].state = "queued" =>
             \E j \in 1..i : bank_codes[j] = b
    /\ HasFreeWorker(Cardinality(Running), pool)
    /\ futures' = [futures EXCEPT ![b] = Future("running", NoMessage)]
    /\ UNCHANGED <<now, pool, phase, submitted, results, collected, ranking, best, fileVars>>

\* scrape_bank: get_scraper built the adapter, scraper.run() returned the
\* result of scrape(), self.results[bank_code] = result
TaskReturns(b) ==
    /\ futures[b].state = "running"
    /\ \E res \in ScrapeReturns(b) :
          results' = DictSet(results, b, res)
    /\ futures' = [futures EXCEPT ![b] = Future("returned", NoMessage)]
    /\ UNCHANGED <<now, pool, phase, submitted, collected, ranking, best, fileVars>>

\* scrape_bank: scrape() raised inside run(), whose except branch returns a
\* failed result; self.results[bank_code] = result
TaskScrapeRaises(b) ==
    /\ futures[b].state = "running"
    /\ \E e \in Faults :
          results' = DictSet(results, b, RunCaught(b, e))
    /\ futures' = [futures EXCEPT ![b] = Future("returned", NoMessage)]
    /\ UNCHANGED <<now, pool, phase, submitted, collected, ranking, best, fileVars>>

\* scrape_bank: get_scraper(bank_code) raised while constructing the adapter
\* (scraper_class() runs BaseScraper.__init__ outside run()'s try): the
\* exception leaves scrape_bank and is stored in the future
TaskConstructRaises(b) ==
    /\ futures[b].state = "running"
    /\ \E e \in Faults :
          futures' = [futures EXCEPT ![b] = Future("raised", e)]
    /\ UNCHANGED <<now, pool, phase, submitted, results, collected, ranking, best, fileVars>>

\* scrape_all: one round of "for future in as_completed(futures)":
\* future.result() returns and the count is logged, or it raises and the
\* except branch logs the error
Collect(b) ==
    /\ phase = "collecting"
    /\ b \in Finished
    /\ collected[b] = "pending"
    /\ collected' = [collected EXCEPT ![b] =
                        IF futures[b].state = "raised" THEN "logged_error" ELSE "logged_info"]
    /\ UNCHANGED <<now, pool, phase, submitted, futures, results, ranking, best, fileVars>>

\* a loop that ends as soon as one future was handled
ExhaustedAtFirst(coll) == \E b \in Banks : coll[b] # "pending"

\* as_completed(futures) has yielded every future (and the with block of the
\* executor, which waits for every task, can be left)
Exhausted(coll) == \A b \in Banks : coll[b] # "pending"

\* scrape_all: as_completed is exhausted, the executor is shut down, the
\* results are returned
EndScrapeAll ==
    /\ phase = "collecting"
    /\ Exhausted(collected)
    /\ phase' = "scraped"
    /\ UNCHANGED <<now, pool, submitted, futures, results, collected, ranking, best, fileVars>>

\* save_results: ranking = self.get_ranking()
Rank ==
    /\ phase = "scraped"
    /\ LET all_rates == get_all_rates(results)
       IN  \E tieUp \in (IF IsTie(SumRates(all_rates), Len(all_rates)) THEN BOOLEAN ELSE {FALSE}) :
              ranking' = Some(get_ranking(results, now, tieUp))
    /\ phase' = "ranked"
    /\ UNCHANGED <<now, pool, submitted, futures, results, collected, best, fileVars>>

\* save_results: open(RATES_FILE, 'w'), json.dump(ranking, f)
WriteCurrent ==
    /\ phase = "ranked"
    /\ rates_file' = Some(json_dump(ranking[1]))
    /\ phase' = "current_saved"
    /\ UNCHANGED <<now, pool, submitted, futures, results, collected, ranking, best, history>>

\* save_results: the history file named by the time is written; the ranking
\* is returned to run_scraping
WriteHistory ==
    /\ phase = "current_saved"
    /\ history' = [n \in DOMAIN history \cup {HistoryName(now)} |->
                      IF n = HistoryName(now) THEN json_dump(ranking[1]) ELSE history[n]]
    /\ phase' = "done"
    /\ UNCHANGED <<now, pool, submitted, futures, results, collected, ranking, best, rates_file>>

\* the arguments get_best_rates is called with
BestTerms == {0, 30, 90}

BestTopN == {2, 10}

\* orchestrator.get_best_rates(term_days, top_n) on the finished orchestrator
GetBestRates ==
    /\ phase = "done"
    /\ \E t \in BestTerms, n \in BestTopN :
          best' = Some([term_days |-> t, top_n |-> n, rates |-> get_best_rates(results, t, n)])
    /\ UNCHANGED <<now, pool, phase, submitted, futures, results, collected, ranking, fileVars>>

InitCycle ==
    /\ now = 0
    /\ pool = max_workers
    /\ CycleInit
    /\ FilesInit
    /\ FetchInit
    /\ ParseInit
    /\ ApiInit

NextCycle ==
    \/ StartCycle
    \/ Submit
    \/ \E b \in Banks : WorkerTakes(b)
    \/ \E b \in Banks : TaskReturns(b)
    \/ \E b \in Banks : TaskScrapeRaises(b)
    \/ \E b \in Banks : TaskConstructRaises(b)
    \/ \E b \in Banks : Collect(b)
    \/ EndScrapeAll
    \/ Rank
    \/ WriteCurrent
    \/ WriteHistory
    \/ GetBestRates

InitFetch ==
    /\ now = 0
    /\ pool = max_workers
    /\ CycleInit
    /\ FilesInit
    /\ FetchInit
    /\ ParseInit
    /\ ApiInit

NextFetch ==
    \/ FetchCall
    \/ RequestSucceeds
    \/ RequestFails
    \/ ParseRaises
    \/ Sleep
    \/ NextAttempt

SpecFetch == InitFetch /\ [][NextFetch]_vars

\* the max_workers a CDTOrchestrator is built with: smaller than the number
\* of sources, and the 5 of run_scraping
PoolSizes == {1, 2, max_workers}

\* CDTOrchestrator(max_workers=n) before scrape_all
InitPool ==
    /\ now = 0
    /\ pool \in PoolSizes
    /\ CycleInit
    /\ FilesInit
    /\ FetchInit
    /\ ParseInit
    /\ ApiInit

\* the cycle with a pool of any of the sizes; the threads of the pool are
\* scheduled and every adapter returns or raises, so a step that can be
\* taken is taken
SpecPool ==
    /\ InitPool
    /\ [][NextCycle /\ UNCHANGED <<fetch, parse, apiVars>>]_vars
    /\ WF_vars(NextCycle /\ UNCHANGED <<fetch, parse, apiVars>>)

SpecCycle == InitCycle /\ [][NextCycle /\ UNCHANGED <<fetch, parse, apiVars>>]_vars

(***************************************************************************)
(* The API (api/app.py): the cache, get_rates_data, refresh_data           *)
(***************************************************************************)
\* what scraper.run() returns for the registered adapter of bank b
Succeeds(b) == ScrapingResult(b, TRUE, StaticRates(b), NoMessage)

\* every source succeeded and the tasks completed in submission order
AllSucceed == [i \in 1..Len(bank_codes) |-> Succeeds(bank_codes[i])]

\* only the first source succeeded, the others failed inside scrape()
OnlyFirstSucceeds ==
    [i \in 1..Len(bank_codes) |->
        IF i = 1 THEN Succeeds(bank_codes[i])
        ELSE ScrapingResult(bank_codes[i], FALSE, <<>>, "No se pudo obtener la pagina")]

\* every source failed inside scrape()
AllFail == [i \in 1..Len(bank_codes) |-> RunCaught(bank_codes[i], "FakeUserAgentError")]

\* the self.results a cycle started by refresh_data may end with
ApiCycleResults == {AllSucceed, OnlyFirstSucceeds, AllFail}

\* the document a cycle run before the API process started left in RATES_FILE
EarlierDocument == json_dump(get_ranking(AllSucceed, 0, FALSE))

\* mutant of CacheFresh: an entry exactly CACHE_DURATION old still served
CacheFreshInclusive(cd, ct, t) == cd # None /\ ct # None /\ t - ct[1] <= CACHE_DURATION

\* get_rates_data: "if _cached_data and _cache_time" and
\* "elapsed < CACHE_DURATION"
CacheFresh(cd, ct, t) == cd # None /\ ct # None /\ t - ct[1] < CACHE_DURATION

\* a RATES_FILE that open() cannot read or whose content is not JSON (a write
\* that was cut short leaves such a file)
Unreadable == [unreadable |-> TRUE]

\* open(RATES_FILE, 'r') and json.load(f) return for this content
Loadable(doc) == "unreadable" \notin DOMAIN doc

\* get_rates_data at time t with the globals cd, ct and the file: the value
\* returned (ret), whether RATES_FILE was loaded, whether open() or
\* json.load raised (nothing in get_rates_data or in the handlers catches
\* it), the elapsed time computed (None when the first test failed), and the
\* globals when it returns
get_rates_data(cd, ct, file, t) ==
    LET age == IF cd # None /\ ct # None THEN Some(t - ct[1]) ELSE None
    IN  IF CacheFresh(cd, ct, t)
        THEN [called |-> TRUE, ret |-> cd, loaded |-> FALSE, raised |-> FALSE, age |-> age,
              data |-> cd, time |-> ct]
        ELSE IF file # None /\ ~Loadable(file[1])
        THEN [called |-> TRUE, ret |-> None, loaded |-> FALSE, raised |-> TRUE, age |-> age,
              data |-> cd, time |-> ct]
        ELSE IF file # None
        THEN [called |-> TRUE, ret |-> Some(json_load(file[1])), loaded |-> TRUE,
              raised |-> FALSE, age |-> age,
              data |-> Some(json_load(file[1])), time |-> Some(t)]
        ELSE [called |-> TRUE, ret |-> None, loaded |-> FALSE, raised |-> FALSE, age |-> age,
              data |-> cd, time |-> ct]

\* the call made by a handler in the current state
Get == get_rates_data(cached_data, cache_time, rates_file, now)

\* jsonify(body), status
Response(op, status, body) == [op |-> op, status |-> status, body |-> body]

NoData == [error |-> "No hay datos disponibles"]

\* what the server answers when a handler raised
InternalServerError == [error |-> "Internal Server Error"]

\* what a handler that only reads leaves behind: the globals as
\* get_rates_data left them, the response
Answer(g, resp) ==
    /\ got' = g
    /\ cached_data' = g.data
    /\ cache_time' = g.time
    /\ response' = Some(IF g.raised THEN Response(resp.op, 500, InternalServerError) ELSE resp)
    /\ UNCHANGED <<now, cycleVars, fileVars, fetch, parse, refresh, refreshes>>

\* the clock advances
Tick ==
    /\ now < MaxTicks * TickStep
    /\ now' = now + TickStep
    /\ got' = NoCall
    /\ response' = None
    /\ UNCHANGED <<cycleVars, fileVars, fetch, parse, cached_data, cache_time, refresh, refreshes>>

\* refresh_data: run_scraping() has scraped and save_results has computed the
\* ranking (the cycle itself is SpecCycle); at most max requests are made
RefreshScrapeUpTo(r, max) ==
    /\ refresh[r].pc = "idle"
    /\ refreshes < max
    /\ refreshes' = refreshes + 1
    /\ \E res \in ApiCycleResults :
          LET all_rates == get_all_rates(res)
          IN  \E tieUp \in (IF IsTie(SumRates(all_rates), Len(all_rates)) THEN BOOLEAN ELSE {FALSE}) :
                 refresh' = [refresh EXCEPT ![r] =
                                [pc |-> "ranked", ranking |-> Some(get_ranking(res, now, tieUp))]]
    /\ got' = NoCall
    /\ response' = None
    /\ UNCHANGED <<now, cycleVars, fileVars, fetch, parse, cached_data, cache_time>>

RefreshScrape(r) == RefreshScrapeUpTo(r, MaxRefreshes)

\* refresh_data: save_results writes RATES_FILE
RefreshWriteCurrent(r) ==
    /\ refresh[r].pc = "ranked"
    /\ rates_file' = Some(json_dump(refresh[r].ranking[1]))
    /\ refresh' = [refresh EXCEPT ![r].pc = "current_saved"]
    /\ got' = NoCall
    /\ response' = None
    /\ UNCHANGED <<now, cycleVars, history, fetch, parse, cached_data, cache_time, refreshes>>

\* refresh_data: save_results writes the history file; run_scraping returns
RefreshWriteHistory(r) ==
    /\ refresh[r].pc = "current_saved"
    /\ history' = [n \in DOMAIN history \cup {HistoryName(now)} |->
                      IF n = HistoryName(now) THEN json_dump(refresh[r].ranking[1]) ELSE history[n]]
    /\ refresh' = [refresh EXCEPT ![r].pc = "saved"]
    /\ got' = NoCall
    /\ response' = None
    /\ UNCHANGED <<now, cycleVars, rates_file, fetch, parse, cached_data, cache_time, refreshes>>

\* an except branch that also empties the cache
RefreshStorageFaultDropsCache(r) ==
    /\ refresh[r].pc \in {"ranked", "current_saved"}
    /\ refresh' = [refresh EXCEPT ![r] = [pc |-> "idle", ranking |-> None]]
    /\ response' = Some(Response("refresh", 500, [success |-> FALSE, error |-> "OSError"]))
    /\ got' = NoCall
    /\ cached_data' = None
    /\ cache_time' = None
    /\ UNCHANGED <<now, cycleVars, fileVars, fetch, parse, refreshes>>

\* refresh_data: open() or json.dump raised in save_results; the except
\* branch answers 500
RefreshStorageFault(r) ==
    /\ refresh[r].pc \in {"ranked", "current_saved"}
    /\ refresh' = [refresh EXCEPT ![r] = [pc |-> "idle", ranking |-> None]]
    /\ response' = Some(Response("refresh", 500, [success |-> FALSE, error |-> "OSError"]))
    /\ got' = NoCall
    /\ UNCHANGED <<now, cycleVars, fileVars, fetch, parse, cached_data, cache_time, refreshes>>

\* refresh_data: _cached_data = ranking
RefreshSetData(r) ==
    /\ refresh[r].pc = "saved"
    /\ cached_data' = refresh[r].ranking
    /\ refresh' = [refresh EXCEPT ![r].pc = "data_set"]
    /\ got' = NoCall
    /\ response' = None
    /\ UNCHANGED <<now, cycleVars, fileVars, fetch, parse, cache_time, refreshes>>

\* refresh_data: _cache_time = datetime.now(); the response
RefreshSetTime(r) ==
    /\ refresh[r].pc = "data_set"
    /\ cache_time' = Some(now)
    /\ response' = Some(Response("refresh", 200,
                        [success |-> TRUE,
                         total_banks |-> refresh[r].ranking[1].total_banks,
                         total_rates |-> refresh[r].ranking[1].total_rates,
                         updated_at |-> refresh[r].ranking[1].generated_at]))
    /\ refresh' = [refresh EXCEPT ![r] = [pc |-> "idle", ranking |-> None]]
    /\ got' = NoCall
    /\ UNCHANGED <<now, cycleVars, fileVars, fetch, parse, cached_data, refreshes>>

(***************************************************************************)
(* The query handlers.  A query parameter or body key that is absent is 0   *)
(* or "" here: the handlers only test these values for truth, and None, 0   *)
(* and "" are all false.                                                    *)
(***************************************************************************)
\* the query strings /api/rates is called with
RatesArgs ==
    { [term |-> 0, bank |-> "", min_rate |-> 0, limit |-> 100, sort |-> "rate_desc"],
      [term |-> 0, bank |-> "", min_rate |-> 0, limit |-> 100, sort |-> "rate_asc"],
      [term |-> 0, bank |-> "", min_rate |-> 0, limit |-> 2, sort |-> "name"],
      [term |-> 30, bank |-> "", min_rate |-> 0, limit |-> 100, sort |-> "rate_asc"],
      [term |-> 0, bank |-> "bbva", min_rate |-> 0, limit |-> 2, sort |-> "term_desc"],
      [term |-> 0, bank |-> "", min_rate |-> 900, limit |-> 2, sort |-> "term_asc"] }

\* get_rates: the three filters; each one that applies builds a new list
Filtered(rates, a) ==
    LET r1 == IF a.term # 0 THEN SelectSeq(rates, LAMBDA r : r.term_days = a.term) ELSE rates
        r2 == IF a.bank # "" THEN SelectSeq(r1, LAMBDA r : r.bank_code = a.bank) ELSE r1
    IN  IF a.min_rate # 0 THEN SelectSeq(r2, LAMBDA r : r.rate_ea >= a.min_rate) ELSE r2

\* get_rates: rates.sort(...) by the sort parameter; any other value sorts
\* nothing
Sorted(rates, sort) ==
    CASE sort = "rate_desc" -> SortDesc(rates, "rate_ea")
      [] sort = "rate_asc" -> SortAsc(rates, "rate_ea")
      [] sort = "term_asc" -> SortAsc(rates, "term_days")
      [] sort = "term_desc" -> SortDesc(rates, "term_days")
      [] OTHER -> rates

\* get_rates: when no filter applied, rates is still the list object
\* data['all_rates'] and rates.sort reorders the list held by the cache
get_rates(a) ==
    LET g == Get
    IN  IF g.ret = None THEN Answer(g, Response("rates", 404, NoData))
        ELSE LET all == g.ret[1].all_rates
                 rates == Sorted(Filtered(all, a), a.sort)
                 same_list == a.term = 0 /\ a.bank = "" /\ a.min_rate = 0
             IN  /\ got' = g
                 /\ cached_data' = IF same_list THEN Some([g.data[1] EXCEPT !.all_rates = rates])
                                   ELSE g.data
                 /\ cache_time' = g.time
                 /\ response' = Some(Response("rates", 200,
                                     [success |-> TRUE,
                                      count |-> Len(Take(rates, a.limit)),
                                      total |-> Len(rates),
                                      rates |-> Take(rates, a.limit)]))
                 /\ UNCHANGED <<now, cycleVars, fileVars, fetch, parse, refresh, refreshes>>

\* get_ranking of the API
api_get_ranking ==
    LET g == Get
    IN  IF g.ret = None THEN Answer(g, Response("ranking", 404, NoData))
        ELSE Answer(g, Response("ranking", 200,
                        [success |-> TRUE,
                         generated_at |-> g.ret[1].generated_at,
                         statistics |-> g.ret[1].statistics,
                         total_banks |-> g.ret[1].total_banks,
                         total_rates |-> g.ret[1].total_rates,
                         top_10 |-> g.ret[1].top_10]))

\* the terms /api/ranking/<term_days> is called with
RankingByTermArgs == {30, 45}

\* get_ranking_by_term: by_term.get(str(term_days), [])
get_ranking_by_term(term_days) ==
    LET g == Get
    IN  IF g.ret = None THEN Answer(g, Response("ranking_by_term", 404, NoData))
        ELSE LET by_term == g.ret[1].by_term
                 term_rates == IF StrKey(term_days) \in DOMAIN by_term
                               THEN by_term[StrKey(term_days)] ELSE <<>>
             IN  Answer(g, Response("ranking_by_term", 200,
                            [success |-> TRUE,
                             term_days |-> term_days,
                             count |-> Len(term_rates),
                             rates |-> term_rates]))

\* the bank codes of rates, each once, in the order they first appear
RECURSIVE CodesOf(_, _)
CodesOf(seen, rates) ==
    IF rates = <<>> THEN seen
    ELSE CodesOf(IF Head(rates).bank_code \in Range(seen) THEN seen
                 ELSE Append(seen, Head(rates).bank_code), Tail(rates))

\* the terms of rates, each once, in the order they first appear
RECURSIVE TermsOf(_, _)
TermsOf(seen, rates) ==
    IF rates = <<>> THEN seen
    ELSE TermsOf(IF Head(rates).term_days \in Range(seen) THEN seen
                 ELSE Append(seen, Head(rates).term_days), Tail(rates))

\* get_banks: the entry the loop builds for one bank code
BankEntry(rates, code) ==
    LET own == SelectSeq(rates, LAMBDA r : r.bank_code = code)
    IN  [code |-> code, min_rate |-> MinRate(own), max_rate |-> MaxRate(own),
         terms_available |-> TermsOf(<<>>, own)]

\* get_banks
get_banks ==
    LET g == Get
    IN  IF g.ret = None THEN Answer(g, Response("banks", 404, NoData))
        ELSE LET rates == g.ret[1].all_rates
                 codes == CodesOf(<<>>, rates)
                 banks == [i \in 1..Len(codes) |-> BankEntry(rates, codes[i])]
                 bank_list == SortDesc(banks, "max_rate")
             IN  Answer(g, Response("banks", 200,
                            [success |-> TRUE, count |-> Len(bank_list), banks |-> bank_list]))

\* the codes /api/bank/<bank_code> is called with
BankArgs == {"bbva", "nequi"}

\* get_bank_rates
get_bank_rates(bank_code) ==
    LET g == Get
    IN  IF g.ret = None THEN Answer(g, Response("bank", 404, NoData))
        ELSE LET bank_rates == SelectSeq(g.ret[1].all_rates, LAMBDA r : r.bank_code = bank_code)
             IN  IF bank_rates = <<>>
                 THEN Answer(g, Response("bank", 404, [error |-> "Banco no encontrado"]))
                 ELSE Answer(g, Response("bank", 200,
                                 [success |-> TRUE,
                                  bank_code |-> bank_code,
                                  count |-> Len(bank_rates),
                                  rates |-> SortAsc(bank_rates, "term_days")]))

\* the JSON bodies /api/simulate is called with (None: no body)
SimulateBodies ==
    { None,
      Some([amount |-> 0, term_days |-> 30, rate_ea |-> 0, bank_code |-> ""]),
      Some([amount |-> 1000000, term_days |-> 30, rate_ea |-> 900, bank_code |-> ""]),
      Some([amount |-> 1000000, term_days |-> 30, rate_ea |-> 0, bank_code |-> ""]),
      Some([amount |-> 1000000, term_days |-> 90, rate_ea |-> 0, bank_code |-> "bbva"]),
      Some([amount |-> 1000000, term_days |-> 45, rate_ea |-> 0, bank_code |-> ""]) }

\* simulate_cdt: the response once rate_ea is known.  The amounts of the
\* result (gross_profit, retention, net_profit, total, effective_rate) are
\* floating-point functions of the three inputs and touch no state; the
\* response is modelled by its input part.
Simulated(amount, term_days, rate_ea) ==
    Response("simulate", 200,
             [success |-> TRUE,
              input |-> [amount |-> amount, term_days |-> term_days, rate_ea |-> rate_ea]])

\* simulate_cdt, the paths that never call get_rates_data: no body, no
\* amount or term_days, or a rate_ea given in the body
simulate_cdt_given(body) ==
    /\ IF body = None THEN TRUE
       ELSE body[1].amount = 0 \/ body[1].term_days = 0 \/ body[1].rate_ea # 0
    /\ response' =
          Some(IF body = None THEN Response("simulate", 400, [error |-> "Se requiere JSON body"])
               ELSE IF body[1].amount = 0 \/ body[1].term_days = 0
               THEN Response("simulate", 400, [error |-> "Se requiere amount y term_days"])
               ELSE Simulated(body[1].amount, body[1].term_days, body[1].rate_ea))
    /\ got' = NoCall
    /\ UNCHANGED <<now, cycleVars, fileVars, fetch, parse, cached_data, cache_time, refresh, refreshes>>

\* simulate_cdt, no rate_ea in the body: the best rate for the term (and the
\* bank) is looked up
simulate_cdt_lookup(body) ==
    /\ IF body = None THEN FALSE
       ELSE body[1].amount # 0 /\ body[1].term_days # 0 /\ body[1].rate_ea = 0
    /\ LET g == Get
           b == body[1]
       IN  IF g.ret = None
           THEN Answer(g, Response("simulate", 404, [error |-> "No hay datos de tasas disponibles"]))
           ELSE LET m1 == SelectSeq(g.ret[1].all_rates, LAMBDA r : r.term_days = b.term_days)
                    m2 == IF b.bank_code # ""
                          THEN SelectSeq(m1, LAMBDA r : r.bank_code = b.bank_code) ELSE m1
                IN  IF m2 = <<>>
                    THEN Answer(g, Response("simulate", 404,
                                    [error |-> "No se encontro tasa para ese plazo"]))
                    ELSE Answer(g, Simulated(b.amount, b.term_days,
                                             SortDesc(m2, "rate_ea")[1].rate_ea))

\* the JSON bodies /api/compare is called with; banks is the set of the
\* codes in the list (empty: no filter)
CompareBodies ==
    { Some([amount |-> 10000000, term_days |-> 360, banks |-> {}]),
      Some([amount |-> 10000000, term_days |-> 30, banks |-> {}]),
      Some([amount |-> 10000000, term_days |-> 60, banks |-> {"bbva", "bancolombia"}]),
      Some([amount |-> 1, term_days |-> 60, banks |-> {}]) }

\* compare_cdts with no body
compare_cdts_no_body ==
    /\ response' = Some(Response("compare", 400, [error |-> "Se requiere JSON body"]))
    /\ got' = NoCall
    /\ UNCHANGED <<now, cycleVars, fileVars, fetch, parse, cached_data, cache_time, refresh, refreshes>>

\* net_profit of compare_cdts in hundredths: round(gross_profit - retention, 2)
\* with gross_profit = amount * ((1 + rate_ea / 100) ** (term_days / 365) - 1)
\* and retention = gross_profit * 0.04, in floating point, tabulated for the
\* amounts of CompareBodies and the terms and rates of the sources' tables
NetProfitTable ==
    <<10000000, 30>> :>
        (800 :> 6091789 @@ 820 :> 6238710 @@ 850 :> 6458625 @@ 880 :> 6677983 @@ 900 :> 6823913 @@ 920 :> 6969598
         @@ 930 :> 7042348 @@ 950 :> 7187666 @@ 970 :> 7332741 @@ 1000 :> 7549898 @@ 1020 :> 7694368 @@ 1030 :> 7766513)
    @@
    <<10000000, 60>> :>
        (800 :> 12222234 @@ 820 :> 12517964 @@ 850 :> 12960702 @@ 880 :> 13402419 @@ 900 :> 13696332 @@ 920 :> 13989795
         @@ 930 :> 14136358 @@ 950 :> 14429148 @@ 970 :> 14721491 @@ 1000 :> 15159172 @@ 1020 :> 15450406 @@ 1030 :> 15595857)
    @@
    <<10000000, 90>> :>
        (800 :> 18391581 @@ 820 :> 18838024 @@ 850 :> 19506524 @@ 880 :> 20173633 @@ 900 :> 20617602 @@ 920 :> 21060958
         @@ 930 :> 21282407 @@ 950 :> 21724847 @@ 970 :> 22166679 @@ 1000 :> 22828289 @@ 1020 :> 23268608 @@ 1030 :> 23488542)
    @@
    <<1, 30>> :>
        (800 :> 1 @@ 820 :> 1 @@ 850 :> 1 @@ 880 :> 1 @@ 900 :> 1 @@ 920 :> 1
         @@ 930 :> 1 @@ 950 :> 1 @@ 970 :> 1 @@ 1000 :> 1 @@ 1020 :> 1 @@ 1030 :> 1)
    @@
    <<1, 60>> :>
        (800 :> 1 @@ 820 :> 1 @@ 850 :> 1 @@ 880 :> 1 @@ 900 :> 1 @@ 920 :> 1
         @@ 930 :> 1 @@ 950 :> 1 @@ 970 :> 1 @@ 1000 :> 2 @@ 1020 :> 2 @@ 1030 :> 2)
    @@
    <<1, 90>> :>
        (800 :> 2 @@ 820 :> 2 @@ 850 :> 2 @@ 880 :> 2 @@ 900 :> 2 @@ 920 :> 2
         @@ 930 :> 2 @@ 950 :> 2 @@ 970 :> 2 @@ 1000 :> 2 @@ 1020 :> 2 @@ 1030 :> 2)

\* net_profit for an amount, a term and a rate of the table
NetProfit(amount, term_days, rate_ea) == NetProfitTable[<<amount, term_days>>][rate_ea]

\* mutant of DifferenceFromBest: the operands swapped
DifferenceFromOwn(best_profit, net_profit) == net_profit - best_profit

\* "round(best_profit - c['net_profit'], 2)", in hundredths
DifferenceFromBest(best_profit, net_profit) == best_profit - net_profit

\* compare_cdts; with the response, the body of the request it answers
compare_cdts(body) ==
    LET g == Get
        b == body[1]
    IN  IF g.ret = None THEN Answer(g, Response("compare", 404, NoData))
        ELSE LET m1 == SelectSeq(g.ret[1].all_rates, LAMBDA r : r.term_days = b.term_days)
                 m2 == IF b.banks # {}
                       THEN SelectSeq(m1, LAMBDA r : r.bank_code \in b.banks) ELSE m1
                 comparisons ==
                     CHOOSE cs \in
                        {[i \in 1..Len(sorted) |->
                             [bank_code |-> sorted[i].bank_code,
                              rate_ea |-> sorted[i].rate_ea,
                              net_profit |-> sorted[i].net_profit,
                              difference_from_best |->
                                  DifferenceFromBest(sorted[1].net_profit, sorted[i].net_profit)]] :
                         sorted \in {SortDesc([i \in 1..Len(m2) |->
                                        [bank_code |-> m2[i].bank_code,
                                         rate_ea |-> m2[i].rate_ea,
                                         net_profit |-> NetProfit(b.amount, b.term_days,
                                                                  m2[i].rate_ea)]],
                                     "net_profit")}} : TRUE
             IN  Answer(g, [op |-> "compare", status |-> 200, request |-> b,
                            body |-> [success |-> TRUE,
                                      input |-> [amount |-> b.amount, term_days |-> b.term_days],
                                      count |-> Len(comparisons),
                                      comparisons |-> comparisons]])

\* get_available_terms: STANDARD_TERMS, no data read
get_available_terms ==
    /\ response' = Some(Response("terms", 200, [success |-> TRUE, terms |-> STANDARD_TERMS]))
    /\ got' = NoCall
    /\ UNCHANGED <<now, cycleVars, fileVars, fetch, parse, cached_data, cache_time, refresh, refreshes>>

\* d with the keys of extra set to the values of extra
WithKeys(d, extra) ==
    [k \in DOMAIN d \cup DOMAIN extra |-> IF k \in DOMAIN extra THEN extra[k] ELSE d[k]]

\* get_statistics: stats is the dict data['statistics'] itself; the four
\* assignments add keys to the dict held by the cache
get_statistics ==
    LET g == Get
    IN  IF g.ret = None THEN Answer(g, Response("stats", 404, NoData))
        ELSE LET stats == WithKeys(g.ret[1].statistics,
                                   [generated_at |-> g.ret[1].generated_at,
                                    total_banks |-> g.ret[1].total_banks,
                                    total_rates |-> g.ret[1].total_rates,
                                    market_trend |-> "estable"])
             IN  /\ got' = g
                 /\ cached_data' = Some([g.data[1] EXCEPT !.statistics = stats])
                 /\ cache_time' = g.time
                 /\ response' = Some(Response("stats", 200, [success |-> TRUE, statistics |-> stats]))
                 /\ UNCHANGED <<now, cycleVars, fileVars, fetch, parse, refresh, refreshes>>

\* the handlers that call get_rates_data
ReadQuery ==
    \/ \E a \in RatesArgs : get_rates(a)
    \/ api_get_ranking
    \/ \E t \in RankingByTermArgs : get_ranking_by_term(t)
    \/ get_banks
    \/ \E b \in BankArgs : get_bank_rates(b)
    \/ \E body \in SimulateBodies : simulate_cdt_lookup(body)
    \/ \E body \in CompareBodies : compare_cdts(body)
    \/ get_statistics

\* the API process starts with nothing cached; RATES_FILE is absent or holds
\* the document of a cycle run before
InitApi ==
    /\ now = 0
    /\ pool = max_workers
    /\ CycleInit
    /\ FetchInit
    /\ ParseInit
    /\ ApiInit
    /\ \/ FilesInit
       \/ /\ rates_file = Some(EarlierDocument)
          /\ history = [n \in {HistoryName(0)} |-> EarlierDocument]

NextApi ==
    \/ Tick
    \/ \E r \in Refreshers : RefreshScrape(r)
    \/ \E r \in Refreshers : RefreshWriteCurrent(r)
    \/ \E r \in Refreshers : RefreshWriteHistory(r)
    \/ \E r \in Refreshers : RefreshStorageFault(r)
    \/ \E r \in Refreshers : RefreshSetData(r)
    \/ \E r \in Refreshers : RefreshSetTime(r)
    \/ ReadQuery
    \/ \E body \in SimulateBodies : simulate_cdt_given(body)
    \/ compare_cdts_no_body
    \/ get_available_terms

SpecApi == InitApi /\ [][NextApi]_vars

(***************************************************************************)
(* The parse functions of the scrapers.  A text is the sequence of its     *)
(* characters.  A float is a whole number of FloatUnit-ths; a rate that a  *)
(* parse function returns is, like every rate_ea here, a whole number of   *)
(* hundredths of a percent.                                                *)
(***************************************************************************)
RECURSIVE Pow10(_)
Pow10(n) == IF n = 0 THEN 1 ELSE 10 * Pow10(n - 1)

\* the decimal places a float keeps of the texts parsed here
FloatDigits == 5

FloatUnit == Pow10(FloatDigits)

DigitChars == <<"0", "1", "2", "3", "4", "5", "6", "7", "8", "9">>

IsDigit(c) == \E d \in 1..10 : DigitChars[d] = c

DigitValue(c) == (CHOOSE d \in 1..10 : DigitChars[d] = c) - 1

\* int(digits)
RECURSIVE DigitsValue(_)
DigitsValue(ds) ==
    IF ds = <<>> THEN 0
    ELSE 10 * DigitsValue(SubSeq(ds, 1, Len(ds) - 1)) + DigitValue(ds[Len(ds)])

\* the decimal digits of n >= 0
RECURSIVE IntDigits(_)
IntDigits(n) ==
    IF n < 10 THEN <<DigitChars[n + 1]>>
    ELSE IntDigits(n \div 10) \o <<DigitChars[(n % 10) + 1]>>

RECURSIVE LStrip(_)
LStrip(s) == IF s # <<>> /\ Head(s) = " " THEN LStrip(Tail(s)) ELSE s

RECURSIVE RStrip(_)
RStrip(s) == IF s # <<>> /\ s[Len(s)] = " " THEN RStrip(SubSeq(s, 1, Len(s) - 1)) ELSE s

\* text.strip()
Strip(s) == RStrip(LStrip(s))

\* text.replace(c, '') for a single character c
WithoutChar(s, c) == SelectSeq(s, LAMBDA x : x # c)

\* text.replace(c, d) for single characters
ReplaceChar(s, c, d) == IF s = <<>> THEN <<>> ELSE [i \in 1..Len(s) |-> IF s[i] = c THEN d ELSE s[i]]

\* text.replace(pat, ''): the occurrences of pat are removed from left to
\* right
RECURSIVE WithoutText(_, _)
WithoutText(s, pat) ==
    IF Len(s) < Len(pat) THEN s
    ELSE IF SubSeq(s, 1, Len(pat)) = pat THEN WithoutText(SubSeq(s, Len(pat) + 1, Len(s)), pat)
    ELSE <<Head(s)>> \o WithoutText(Tail(s), pat)

\* the length of the match of [eE]\.?[aA]\.? at the head of s, 0 when there
\* is none
MatchEA(s) ==
    LET at(i, cs) == i <= Len(s) /\ s[i] \in cs
    IN  IF ~at(1, {"e", "E"}) THEN 0
        ELSE IF at(2, {"."}) /\ at(3, {"a", "A"}) THEN (IF at(4, {"."}) THEN 4 ELSE 3)
        ELSE IF at(2, {"a", "A"}) THEN (IF at(3, {"."}) THEN 3 ELSE 2)
        ELSE 0

\* re.sub(r'[eE]\.?[aA]\.?', '', text)
RECURSIVE WithoutEA(_)
WithoutEA(s) ==
    IF s = <<>> THEN <<>>
    ELSE IF MatchEA(s) > 0 THEN WithoutEA(SubSeq(s, MatchEA(s) + 1, Len(s)))
    ELSE <<Head(s)>> \o WithoutEA(Tail(s))

\* float(text): the text is an optional sign, digits and at most one point,
\* with a digit somewhere; anything else raises ValueError (None here).  An
\* exponent part, "inf", "nan" and "_" do not occur in the texts parsed here.
ToFloat(text) ==
    LET s == IF text # <<>> /\ Head(text) \in {"+", "-"} THEN Tail(text) ELSE text
        sign == IF text # <<>> /\ Head(text) = "-" THEN -1 ELSE 1
        points == {i \in 1..Len(s) : s[i] = "."}
        p == IF points = {} THEN Len(s) + 1 ELSE CHOOSE i \in points : TRUE
        whole == SubSeq(s, 1, p - 1)
        frac == SubSeq(s, p + 1, Len(s))
    IN  IF /\ Cardinality(points) <= 1
           /\ \A i \in 1..Len(s) : s[i] = "." \/ IsDigit(s[i])
           /\ \E i \in 1..Len(s) : IsDigit(s[i])
           /\ Len(frac) <= FloatDigits
        THEN Some(sign * (DigitsValue(whole) * FloatUnit
                            + DigitsValue(frac) * Pow10(FloatDigits - Len(frac))))
        ELSE None

\* n / d is exactly half way between two whole numbers
IsHalf(n, d) == 2 * (n % d) = d

\* round(n / d): the nearest whole number; half way between two the binary
\* value of the float decides, which tieUp stands for
Round(n, d, tieUp) ==
    IF 2 * (n % d) < d THEN n \div d
    ELSE IF 2 * (n % d) > d THEN (n \div d) + 1
    ELSE IF tieUp THEN (n \div d) + 1 ELSE n \div d

\* the text of both _parse_rate after strip and the replace calls for '%',
\* ',' and ' '
CleanRate(text) == WithoutChar(ReplaceChar(WithoutChar(Strip(text), "%"), ",", "."), " ")

\* BaseScraper._parse_rate: "if rate > 1: rate = rate / 100"
ScaledDown(rate) == IF rate > FloatUnit THEN rate \div 100 ELSE rate

\* BaseScraper._parse_rate(text)
parse_rate(text, tieUp) ==
    IF text = <<>> THEN None
    ELSE LET t == WithoutText(WithoutText(WithoutText(CleanRate(text),
                      <<"E", ".", "A", ".">>), <<"E", "A">>), <<"e", ".", "a", ".">>)
             f == ToFloat(t)
         IN  IF f = None THEN None
             ELSE Some(Round(ScaledDown(f[1]) * 100, FloatUnit \div 100, tieUp))

\* whether the rounding of parse_rate(text) is half way
parse_rate_tie(text) ==
    LET t == WithoutText(WithoutText(WithoutText(CleanRate(text),
                 <<"E", ".", "A", ".">>), <<"E", "A">>), <<"e", ".", "a", ".">>)
        f == ToFloat(t)
    IN  text # <<>> /\ f # None /\ IsHalf(ScaledDown(f[1]) * 100, FloatUnit \div 100)

\* MejorCDTScraper._parse_rate(text)
mejorcdt_parse_rate(text, tieUp) ==
    IF text = <<>> THEN None
    ELSE LET f == ToFloat(WithoutEA(CleanRate(text)))
         IN  IF f = None THEN None
             ELSE Some(Round(f[1], FloatUnit \div 100, tieUp))

mejorcdt_parse_rate_tie(text) ==
    LET f == ToFloat(WithoutEA(CleanRate(text)))
    IN  text # <<>> /\ f # None /\ IsHalf(f[1], FloatUnit \div 100)

\* str(r) of the float r, given in hundredths: the shortest decimal text, with
\* at least one decimal
FloatStr(h) ==
    LET a == IF h < 0 THEN -h ELSE h
        f == a % 100
    IN  (IF h < 0 THEN <<"-">> ELSE <<>>)
        \o IntDigits(a \div 100) \o <<".">>
        \o (IF f % 10 = 0 THEN <<DigitChars[(f \div 10) + 1]>>
            ELSE <<DigitChars[(f \div 10) + 1], DigitChars[(f % 10) + 1]>>)

\* the letters i with acute accent and n with tilde
IAcute == "i'"

NTilde == "n~"

\* text.lower() for the letters of the term texts
UpperChars == <<"D", "I", "A", "S", "M", "E", "N", "O">>

LowerChars == <<"d", "i", "a", "s", "m", "e", "n", "o">>

Lower(s) ==
    IF s = <<>> THEN <<>>
    ELSE [i \in 1..Len(s) |->
            IF \E k \in 1..Len(UpperChars) : UpperChars[k] = s[i]
            THEN LowerChars[CHOOSE k \in 1..Len(UpperChars) : UpperChars[k] = s[i]]
            ELSE s[i]]

\* the maximal runs of digits of s, as <<first, last>>
DigitRuns(s) ==
    {r \in (1..Len(s)) \X (1..Len(s)) :
        /\ r[1] <= r[2]
        /\ \A i \in r[1]..r[2] : IsDigit(s[i])
        /\ (r[1] = 1 \/ ~IsDigit(s[r[1] - 1]))
        /\ (r[2] = Len(s) \/ ~IsDigit(s[r[2] + 1]))}

\* the first position after last that holds no blank
RECURSIVE AfterBlanks(_, _)
AfterBlanks(s, last) ==
    IF last + 1 <= Len(s) /\ s[last + 1] = " " THEN AfterBlanks(s, last + 1) ELSE last + 1

\* one of the words stands at position k of s
WordAt(s, k, words) ==
    \E w \in words : k + Len(w) - 1 <= Len(s) /\ SubSeq(s, k, k + Len(w) - 1) = w

\* re.search(r'(\d+)\s*<word>', s).group(1) as a number: the leftmost run of
\* digits that blanks and one of the words follow; None when there is none
SearchNumber(s, words) ==
    LET found == {r \in DigitRuns(s) : WordAt(s, AfterBlanks(s, r[2]), words)}
    IN  IF found = {} THEN None
        ELSE LET r == CHOOSE x \in found : \A y \in found : x[1] <= y[1]
             IN  Some(DigitsValue(SubSeq(s, r[1], r[2])))

\* mutant of parse_term: the month pattern is tried before the day pattern
parse_termMonthsFirst(text) ==
    LET s == Lower(Strip(text))
        dias == SearchNumber(s, {<<"d", "i", "a">>, <<"d", IAcute, "a">>})
        meses == SearchNumber(s, {<<"m", "e", "s">>})
        anos == SearchNumber(s, {<<"a", NTilde, "o">>, <<"a", "n", "o">>})
        num == SearchNumber(s, {<<>>})
    IN  IF text = <<>> THEN None
        ELSE IF meses # None THEN Some(meses[1] * 30)
        ELSE IF dias # None THEN dias
        ELSE IF anos # None THEN Some(anos[1] * 365)
        ELSE IF num # None THEN (IF num[1] <= 36 THEN Some(num[1] * 30) ELSE num)
        ELSE None

\* BaseScraper._parse_term(text)
parse_term(text) ==
    LET s == Lower(Strip(text))
        dias == SearchNumber(s, {<<"d", "i", "a">>, <<"d", IAcute, "a">>})
        meses == SearchNumber(s, {<<"m", "e", "s">>})
        anos == SearchNumber(s, {<<"a", NTilde, "o">>, <<"a", "n", "o">>})
        num == SearchNumber(s, {<<>>})
    IN  IF text = <<>> THEN None
        ELSE IF dias # None THEN dias
        ELSE IF meses # None THEN Some(meses[1] * 30)
        ELSE IF anos # None THEN Some(anos[1] * 365)
        ELSE IF num # None THEN (IF num[1] <= 36 THEN Some(num[1] * 30) ELSE num)
        ELSE None

\* MejorCDTScraper._parse_term(text)
mejorcdt_parse_term(text) ==
    LET s == Lower(Strip(text))
        dias == SearchNumber(s, {<<"d", "i", "a">>, <<"d", IAcute, "a">>})
        meses == SearchNumber(s, {<<"m", "e", "s">>})
        anos == SearchNumber(s, {<<"a", NTilde, "o">>, <<"a", "n", "o">>})
        num == SearchNumber(s, {<<>>})
    IN  IF text = <<>> THEN None
        ELSE IF dias # None THEN dias
        ELSE IF meses # None THEN Some(meses[1] * 30)
        ELSE IF anos # None THEN Some(anos[1] * 365)
        ELSE IF num # None THEN (IF num[1] <= 24 THEN Some(num[1] * 30) ELSE num)
        ELSE None

\* "if x" for an Optional number: neither None nor 0
Truthy(x) == x # None /\ x[1] # 0

\* the first width decimals of fr / 10^width, trailing zeros dropped
RECURSIVE Decimals(_, _)
Decimals(fr, width) ==
    IF fr = 0 THEN <<>>
    ELSE <<DigitChars[(fr \div Pow10(width - 1)) + 1]>> \o Decimals(fr % Pow10(width - 1), width - 1)

\* the decimal text of the float x >= 0: "8.5", "100"
DecimalText(x) ==
    IntDigits(x \div FloatUnit)
    \o (IF x % FloatUnit = 0 THEN <<>> ELSE <<".">> \o Decimals(x % FloatUnit, FloatDigits))

\* the rate cells parsed: percentages with and without the E.A. mark, with a
\* decimal comma, with blanks; fractions; rates outside the usual range; no
\* number at all
RateTexts ==
    { <<"8", ".", "5", "%">>,
      <<"8", ",", "5", " ", "%">>,
      <<"9", ".", "2", "5", "%", " ", "E", ".", "A", ".">>,
      <<"1", "0", "%", " ", "E", "A">>,
      <<"8", ".", "5", " ", "e", ".", "a">>,
      <<" ", "1", "2", ".", "3", "0", " ", "%", " ">>,
      <<"9", ",", "5", "0", "%">>,
      <<"1", "5", ".", "5">>,
      <<"8", ".", "5">>,
      <<"8", ".", "5", "5", "5">>,
      <<"0", ".", "0", "8", "5">>,
      <<"0", ".", "0", "0", "5">>,
      <<"0", ".", "0", "1">>,
      <<"1">>,
      <<"1", "0", "0">>,
      <<"3", "0", "%">>,
      <<"0", ".", "5", "%">>,
      <<"0">>,
      <<"N", "/", "A">>,
      <<>> }

\* the term cells parsed
TermTexts ==
    { <<"9", "0", " ", "d", "i", "a", "s">>,
      <<"9", "0", " ", "D", IAcute, "a", "s">>,
      <<"3", " ", "m", "e", "s", "e", "s">>,
      <<"1", " ", "a", NTilde, "o">>,
      <<"1", "2">>,
      <<"9", "0">>,
      <<"0", " ", "d", "i", "a", "s">>,
      <<"6", " ", "m", "e", "s", "e", "s", " ", "1", "5", " ", "d", "i", "a", "s">>,
      <<"1", " ", "a", NTilde, "o", " ", "6", " ", "m", "e", "s", "e", "s">>,
      <<"2", " ", "A", "N", "O", "S">>,
      <<"3", "6">>,
      <<"3", "7">>,
      <<"P", "l", "a", "z", "o">>,
      <<>> }

\* a bank of BANKS_CONFIG that SCRAPERS has no class for: get_scraper falls
\* back to GenericTableScraper(config)
GenericBank == "coltefinanciera"

\* _parse_table on a data row with a term cell and a rate cell and no amount
\* column: the record is appended "if term_days and rate_ea"
ParseRow ==
    /\ parse.pc = "idle"
    /\ \E tt \in TermTexts, rt \in RateTexts :
          \E tieUp \in (IF parse_rate_tie(rt) THEN BOOLEAN ELSE {FALSE}) :
             LET term_days == parse_term(tt)
                 rate_ea == parse_rate(rt, tieUp)
             IN  parse' = [pc |-> "row", term_text |-> tt, rate_text |-> rt,
                           term_days |-> term_days, rate_ea |-> rate_ea,
                           rates |-> IF Truthy(term_days) /\ Truthy(rate_ea)
                                     THEN <<CDTRate(GenericBank, term_days[1], rate_ea[1], None)>>
                                     ELSE <<>>]
    /\ UNCHANGED <<now, cycleVars, fileVars, fetch, apiVars>>

\* GenericTableScraper.scrape returns the result of the rows parsed,
\* scrape_bank stores it in self.results, get_all_rates merges
ScrapeTable ==
    /\ parse.pc = "row"
    /\ LET result == ScrapingResult(GenericBank, Len(parse.rates) > 0, parse.rates,
                                    IF parse.rates # <<>> THEN NoMessage
                                    ELSE "No se encontraron tasas")
       IN  parse' = [pc |-> "merged", term_text |-> parse.term_text,
                     rate_text |-> parse.rate_text, result |-> result,
                     all_rates |-> get_all_rates(<<result>>)]
    /\ UNCHANGED <<now, cycleVars, fileVars, fetch, apiVars>>

\* the rate parsed is written as str(rate) + "%" and parsed again
ReparseRate ==
    /\ parse.pc = "row"
    /\ parse.rate_ea # None
    /\ LET canonical == FloatStr(parse.rate_ea[1]) \o <<"%">>
       IN  \E tieUp \in (IF parse_rate_tie(canonical) THEN BOOLEAN ELSE {FALSE}) :
              parse' = [pc |-> "reparsed", rate_text |-> parse.rate_text,
                        rate_ea |-> parse.rate_ea, canonical |-> canonical,
                        again |-> parse_rate(canonical, tieUp)]
    /\ UNCHANGED <<now, cycleVars, fileVars, fetch, apiVars>>

\* MejorCDTScraper._parse_rate on a cell
MejorCDTParseRate ==
    /\ parse.pc = "idle"
    /\ \E rt \in RateTexts :
          \E tieUp \in (IF mejorcdt_parse_rate_tie(rt) THEN BOOLEAN ELSE {FALSE}) :
             parse' = [pc |-> "mejorcdt", rate_text |-> rt,
                       rate_ea |-> mejorcdt_parse_rate(rt, tieUp)]
    /\ UNCHANGED <<now, cycleVars, fileVars, fetch, apiVars>>

\* MejorCDTScraper._parse_term on a cell
MejorCDTParseTerm ==
    /\ parse.pc = "idle"
    /\ \E tt \in TermTexts :
          parse' = [pc |-> "mejorcdt_term", term_text |-> tt,
                    term_days |-> mejorcdt_parse_term(tt)]
    /\ UNCHANGED <<now, cycleVars, fileVars, fetch, apiVars>>

\* CDTRateFromMejorCDT(...), the fields the strategies differ in
CDTRateFromMejorCDT(b, r, t, lo, hi) ==
    [bank_code |-> b, rate_ea |-> r, term_days |-> t, min_amount |-> lo, max_amount |-> hi]

\* the code _get_bank_code builds for the name "Banco X", which no key of
\* BANK_CODE_MAP matches
TableBank == "banco_x"

\* MejorCDTScraper._extract_rates_from_table, the body of "for i, cell in
\* enumerate(cells)" for a cell that is not the bank cell: the cell is parsed
\* as a rate and, when the rate is within 1..25, a record is appended whose
\* term is the term cell parsed, "or 360"
TableCellRates(cell_text, term_text, tieUp) ==
    LET rate == mejorcdt_parse_rate(Strip(cell_text), tieUp)
        term == mejorcdt_parse_term(term_text)
    IN  IF Truthy(rate) /\ 1 * 100 < rate[1] /\ rate[1] < 25 * 100
        THEN <<CDTRateFromMejorCDT(TableBank, rate[1],
                                   IF Truthy(term) THEN term[1] ELSE 360, None, None)>>
        ELSE <<>>

\* _extract_rates_from_table on a table with the header row Entidad, Plazo,
\* Tasa E.A. (bank_col 0, term_col 1, rate_col 2, no amount column) and one
\* data row: Banco X, a term cell, a rate cell
ExtractTableRow ==
    /\ parse.pc = "idle"
    /\ \E tt \in TermTexts, rt \in RateTexts :
          \E tieUp \in (IF mejorcdt_parse_rate_tie(rt) THEN BOOLEAN ELSE {FALSE}) :
             parse' = [pc |-> "table_row", term_text |-> tt, rate_text |-> rt,
                       term_days |-> mejorcdt_parse_term(tt),
                       rate_ea |-> mejorcdt_parse_rate(rt, tieUp),
                       rates |-> TableCellRates(tt, tt, FALSE)
                                 \o TableCellRates(rt, tt, tieUp)]
    /\ UNCHANGED <<now, cycleVars, fileVars, fetch, apiVars>>

\* what the group (\d{1,2}[.,]\d{1,2}) of the card and free-text patterns
\* captures before the E.A. mark: one or two digits, a point or a comma, one
\* or two digits
CapturedRates ==
    { <<"9", ".", "2", "5">>,
      <<"8", ",", "5">>,
      <<"1", "2", ".", "3", "0">>,
      <<"0", ".", "5">>,
      <<"1", ".", "0">>,
      <<"2", "5", ".", "0">>,
      <<"3", "0", ".", "5">> }

\* the body of "for rate_str in rate_matches" of _extract_rates_from_card and
\* of "for bank_name, rate_str in matches" of _extract_rates_from_text for a
\* bank of BANK_CODE_MAP: the record appended for a rate within 1..25
MatchRates(rate_str, tieUp) ==
    LET rate == mejorcdt_parse_rate(rate_str, tieUp)
    IN  IF Truthy(rate) /\ 1 * 100 < rate[1] /\ rate[1] < 25 * 100
        THEN <<CDTRateFromMejorCDT("bancolombia", rate[1], 360, None, None)>>
        ELSE <<>>

\* MejorCDTScraper._extract_rates_from_card on a card titled Bancolombia whose
\* text holds one rate with the E.A. mark
ExtractCard ==
    /\ parse.pc = "idle"
    /\ \E rs \in CapturedRates :
          \E tieUp \in (IF mejorcdt_parse_rate_tie(rs) THEN BOOLEAN ELSE {FALSE}) :
             parse' = [pc |-> "card", rate_text |-> rs, rates |-> MatchRates(rs, tieUp)]
    /\ UNCHANGED <<now, cycleVars, fileVars, fetch, apiVars>>

\* MejorCDTScraper._extract_rates_from_text on a page text with one sentence
\* "Bancolombia ofrece <rate>% E.A."
ExtractText ==
    /\ parse.pc = "idle"
    /\ \E rs \in CapturedRates :
          \E tieUp \in (IF mejorcdt_parse_rate_tie(rs) THEN BOOLEAN ELSE {FALSE}) :
             parse' = [pc |-> "text", rate_text |-> rs, rates |-> MatchRates(rs, tieUp)]
    /\ UNCHANGED <<now, cycleVars, fileVars, fetch, apiVars>>

\* the next cell
NextRow ==
    /\ parse.pc # "idle"
    /\ parse' = NoRow
    /\ UNCHANGED <<now, cycleVars, fileVars, fetch, apiVars>>

InitParse ==
    /\ now = 0
    /\ pool = max_workers
    /\ CycleInit
    /\ FilesInit
    /\ FetchInit
    /\ ParseInit
    /\ ApiInit

NextParse ==
    \/ ParseRow
    \/ ScrapeTable
    \/ ReparseRate
    \/ MejorCDTParseRate
    \/ MejorCDTParseTerm
    \/ ExtractTableRow
    \/ ExtractCard
    \/ ExtractText
    \/ NextRow

SpecParse == InitParse /\ [][NextParse]_vars

(***************************************************************************)
(* GenericTableScraper.scrape: fetch, parse the tables, deduplicate         *)
(***************************************************************************)
\* the most data rows the tables of a page have
MaxRows == 3

\* the data rows a page may hold, as <<term cell, rate cell>>: two that give
\* the same term and rate, one with another rate, one with neither
TableRows ==
    { <<<<"9", "0", " ", "d", "i", "a", "s">>, <<"9", ",", "5", "0", "%">>>>,
      <<<<"3", " ", "m", "e", "s", "e", "s">>, <<"9", ",", "5", "0", "%">>>>,
      <<<<"9", "0", " ", "d", "i", "a", "s">>, <<"8", ".", "5", "%">>>>,
      <<<<"P", "l", "a", "z", "o">>, <<"N", "/", "A">>>> }

\* the pages: the sequences of at most MaxRows rows
Pages == UNION {[1..n -> TableRows] : n \in 0..MaxRows}

\* "for table in tables: all_rates.extend(self._parse_table(table))": the
\* records of the rows, in the order of the page
RECURSIVE ParsedRows(_)
ParsedRows(rows) ==
    IF rows = <<>> THEN <<>>
    ELSE LET term_days == parse_term(rows[1][1])
             rate_ea == parse_rate(rows[1][2], FALSE)
         IN  (IF Truthy(term_days) /\ Truthy(rate_ea)
              THEN <<CDTRate(GenericBank, term_days[1], rate_ea[1], None)>>
              ELSE <<>>) \o ParsedRows(Tail(rows))

\* the loop "for rate in all_rates" of scrape: a record is appended to
\* unique_rates when its key is not in seen
RECURSIVE UniqueFrom(_, _)
UniqueFrom(unique, rest) ==
    IF rest = <<>> THEN unique
    ELSE UniqueFrom(IF \E i \in 1..Len(unique) : DedupKey(unique[i]) = DedupKey(Head(rest))
                    THEN unique ELSE Append(unique, Head(rest)),
                    Tail(rest))

\* scrape() is called: it calls _get_page(self.config.url)
GenericScrapeCall ==
    /\ parse.pc = "idle"
    /\ fetch.pc = "idle"
    /\ fetch' = FetchState("request", "get", 0, <<>>, None)
    /\ parse' = [pc |-> "fetching"]
    /\ UNCHANGED <<now, cycleVars, fileVars, apiVars>>

\* "if not soup": _get_page returned None, the failure is reported
GenericScrapeNoPage ==
    /\ parse.pc = "fetching"
    /\ fetch.pc = "returned"
    /\ fetch.ret = None
    /\ parse' = [pc |-> "scraped", fetched |-> FALSE, all_rates |-> <<>>,
                 result |-> ScrapingResult(GenericBank, FALSE, <<>>,
                                           "No se pudo obtener la pagina")]
    /\ UNCHANGED <<now, cycleVars, fileVars, fetch, apiVars>>

\* the page arrived: its tables are parsed, the records deduplicated and the
\* result built
GenericScrapePage ==
    /\ parse.pc = "fetching"
    /\ fetch.pc = "returned"
    /\ fetch.ret # None
    /\ \E rows \in Pages :
          LET all_rates == ParsedRows(rows)
              unique_rates == UniqueFrom(<<>>, all_rates)
          IN  parse' = [pc |-> "scraped", fetched |-> TRUE, all_rates |-> all_rates,
                        result |-> ScrapingResult(GenericBank, Len(unique_rates) > 0,
                                                  unique_rates,
                                                  IF unique_rates # <<>> THEN NoMessage
                                                  ELSE "No se encontraron tasas")]
    /\ UNCHANGED <<now, cycleVars, fileVars, fetch, apiVars>>

\* _get_page raised what is no RequestException: scrape() raises it too
GenericScrapeRaises ==
    /\ parse.pc = "fetching"
    /\ fetch.pc = "raised"
    /\ parse' = [pc |-> "scrape_raised"]
    /\ UNCHANGED <<now, cycleVars, fileVars, fetch, apiVars>>

\* the call is over; the next one may be made
GenericScrapeEnds ==
    /\ parse.pc \in {"scraped", "scrape_raised"}
    /\ parse' = NoRow
    /\ fetch' = FetchState("idle", "get", 0, <<>>, None)
    /\ UNCHANGED <<now, cycleVars, fileVars, apiVars>>

NextGeneric ==
    \/ GenericScrapeCall
    \/ RequestSucceeds
    \/ RequestFails
    \/ ParseRaises
    \/ Sleep
    \/ NextAttempt
    \/ GenericScrapeNoPage
    \/ GenericScrapePage
    \/ GenericScrapeRaises
    \/ GenericScrapeEnds

SpecGeneric == InitParse /\ [][NextGeneric]_vars

(***************************************************************************)
(* MejorCDTScraper.scrape_multiple_months: the loop over the recent months  *)
(***************************************************************************)
\* the largest num_months a call is made with
MaxMonths == 14

\* scrape_multiple_months(num_months) is called; datetime.now() is in month m
\* of the year 2025
ScrapeMultipleMonths ==
    /\ parse.pc = "idle"
    /\ \E m \in 1..12, n \in 1..MaxMonths :
          parse' = [pc |-> "months", now_month |-> m, now_year |-> 2025,
                    num_months |-> n, i |-> 0, visited |-> <<>>]
    /\ UNCHANGED <<now, cycleVars, fileVars, fetch, apiVars>>

\* "month = now.month - i": the month number of iteration i, 12 added once
\* when it is not positive
MonthOf(now_month, i) ==
    IF now_month - i <= 0 THEN now_month - i + 12 ELSE now_month - i

\* "year = now.year", one subtracted when the month number was not positive
YearOf(now_year, now_month, i) ==
    IF now_month - i <= 0 THEN now_year - 1 ELSE now_year

\* one iteration of "for i in range(num_months)" in which months_es[month]
\* is found: the page of that month and year is scraped
VisitMonth ==
    /\ parse.pc = "months"
    /\ parse.i < parse.num_months
    /\ MonthOf(parse.now_month, parse.i) \in 1..12
    /\ parse' = [parse EXCEPT
                    !.visited = Append(@, <<MonthOf(parse.now_month, parse.i),
                                            YearOf(parse.now_year, parse.now_month, parse.i)>>),
                    !.i = @ + 1]
    /\ UNCHANGED <<now, cycleVars, fileVars, fetch, apiVars>>

\* an iteration in which months_es has no such key: KeyError leaves the call
MonthLookupRaises ==
    /\ parse.pc = "months"
    /\ parse.i < parse.num_months
    /\ MonthOf(parse.now_month, parse.i) \notin 1..12
    /\ parse' = [parse EXCEPT !.pc = "months_raised"]
    /\ UNCHANGED <<now, cycleVars, fileVars, fetch, apiVars>>

\* range(num_months) is exhausted: the results are returned
ReturnMonths ==
    /\ parse.pc = "months"
    /\ parse.i = parse.num_months
    /\ parse' = [parse EXCEPT !.pc = "months_returned"]
    /\ UNCHANGED <<now, cycleVars, fileVars, fetch, apiVars>>

\* the call is over; the next one may be made
MonthsCallEnds ==
    /\ parse.pc \in {"months_returned", "months_raised"}
    /\ parse' = NoRow
    /\ UNCHANGED <<now, cycleVars, fileVars, fetch, apiVars>>

NextMonths ==
    \/ ScrapeMultipleMonths
    \/ VisitMonth
    \/ MonthLookupRaises
    \/ ReturnMonths
    \/ MonthsCallEnds

SpecMonths == InitParse /\ [][NextMonths]_vars

(***************************************************************************)
(* Read queries on whatever a process finds in RATES_FILE when it starts:   *)
(* no file, a file that cannot be loaded, the document of a cycle in which  *)
(* no source succeeded, the document of a cycle in which all did            *)
(***************************************************************************)
ZeroRecordDocument == json_dump(get_ranking(AllFail, 0, FALSE))

InitRead ==
    /\ now = 0
    /\ pool = max_workers
    /\ CycleInit
    /\ FetchInit
    /\ ParseInit
    /\ ApiInit
    /\ history = <<>>
    /\ rates_file \in {None, Some(Unreadable), Some(ZeroRecordDocument), Some(EarlierDocument)}

NextRead ==
    \/ Tick
    \/ ReadQuery

SpecRead == InitRead /\ [][NextRead]_vars

(***************************************************************************)
(* Refresh requests one after another and at the same time: the threaded   *)
(* server handles POST /api/refresh on a thread of its own, every request  *)
(* runs run_scraping() and save_results() on the same DATA_DIR             *)
(***************************************************************************)
\* how many refresh requests are made
MaxCycles == 2

\* the threads that handle them
StoreRefreshers == {"r1", "r2"}

InitStore ==
    /\ now = 0
    /\ pool = max_workers
    /\ CycleInit
    /\ FetchInit
    /\ ParseInit
    /\ FilesInit
    /\ cached_data = None
    /\ cache_time = None
    /\ refresh = [r \in StoreRefreshers |-> [pc |-> "idle", ranking |-> None]]
    /\ refreshes = 0
    /\ got = NoCall
    /\ response = None

NextStore ==
    \/ Tick
    \/ \E r \in StoreRefreshers : RefreshScrapeUpTo(r, MaxCycles)
    \/ \E r \in StoreRefreshers : RefreshWriteCurrent(r)
    \/ \E r \in StoreRefreshers : RefreshWriteHistory(r)
    \/ \E r \in StoreRefreshers : RefreshStorageFault(r)
    \/ \E r \in StoreRefreshers : RefreshSetData(r)
    \/ \E r \in StoreRefreshers : RefreshSetTime(r)

SpecStore == InitStore /\ [][NextStore]_vars

(***************************************************************************)
(* Queries while a refresh writes RATES_FILE.  SpecApi and SpecStore take   *)
(* the write of save_results as one step; here "with open(RATES_FILE, 'w')" *)
(* and json.dump are the two steps they are for a reader of the file        *)
(***************************************************************************)
\* save_results: open(RATES_FILE, 'w') creates or truncates the file; until
\* json.dump has written the whole document the file holds nothing or the
\* beginning of a document, which json.load cannot load
RefreshOpenCurrent(r) ==
    /\ refresh[r].pc = "ranked"
    /\ rates_file' = Some(Unreadable)
    /\ refresh' = [refresh EXCEPT ![r].pc = "current_open"]
    /\ got' = NoCall
    /\ response' = None
    /\ UNCHANGED <<now, cycleVars, history, fetch, parse, cached_data, cache_time, refreshes>>

\* save_results: json.dump(ranking, f) has written the document and the
\* with block closed the file
RefreshDumpCurrent(r) ==
    /\ refresh[r].pc = "current_open"
    /\ rates_file' = Some(json_dump(refresh[r].ranking[1]))
    /\ refresh' = [refresh EXCEPT ![r].pc = "current_saved"]
    /\ got' = NoCall
    /\ response' = None
    /\ UNCHANGED <<now, cycleVars, history, fetch, parse, cached_data, cache_time, refreshes>>

\* the process starts with no file or with the file of an earlier cycle
InitWrite ==
    /\ now = 0
    /\ pool = max_workers
    /\ CycleInit
    /\ FetchInit
    /\ ParseInit
    /\ ApiInit
    /\ history = <<>>
    /\ rates_file \in {None, Some(EarlierDocument)}

NextWrite ==
    \/ Tick
    \/ \E r \in Refreshers : RefreshScrape(r)
    \/ \E r \in Refreshers : RefreshOpenCurrent(r)
    \/ \E r \in Refreshers : RefreshDumpCurrent(r)
    \/ \E r \in Refreshers : RefreshWriteHistory(r)
    \/ \E r \in Refreshers : RefreshSetData(r)
    \/ \E r \in Refreshers : RefreshSetTime(r)
    \/ ReadQuery

SpecWrite == InitWrite /\ [][NextWrite]_vars

(***************************************************************************)
(* Helpers of the properties                                               *)
(***************************************************************************)
\* how many times x occurs in s
Count(s, x) == Cardinality({i \in 1..Len(s) : s[i] = x})

\* every adjacent pair of s satisfies rate[i] >= rate[i+1]
IsRateDescending(s) == \A i \in 1..(Len(s) - 1) : s[i].rate_ea >= s[i + 1].rate_ea

\* the result recorded for bank b, as a set (empty when there is none)
ResultsOf(b) == {results[i] : i \in {j \in 1..Len(results) : results[j].bank_code = b}}

SucceededBanks == {b \in Banks : \E r \in ResultsOf(b) : r.success}

\* the records the successful results hold
SuccessfulRecords == UNION {Range(r.rates) : r \in {x \in Range(results) : x.success}}

\* the results in the order the banks were submitted
RECURSIVE InSubmissionOrder(_, _)
InSubmissionOrder(res, i) ==
    IF i > Len(bank_codes) THEN <<>>
    ELSE SelectSeq(res, LAMBDA r : r.bank_code = bank_codes[i]) \o InSubmissionOrder(res, i + 1)

Ranked == ranking # None

(***************************************************************************)
(* C1: refresh replaces the Aggregate and its timestamp as one step, so the *)
(* globals a get_rates_data call reads are always a pair stored together:  *)
(* both absent, or an Aggregate with a timestamp taken when it was stored  *)
(* (never earlier than the Aggregate was generated).                       *)
(***************************************************************************)
PairedSlot ==
    /\ (cached_data = None) <=> (cache_time = None)
    /\ cached_data # None /\ cache_time # None =>
          cache_time[1] >= cached_data[1].generated_at

\* C1: every get_rates_data call reads a pair stored together
C1_AtomicSwap == [][got'.called => PairedSlot]_vars

C2_WitnessFresh ==
    /\ got.called
    /\ got.age # None
    /\ got.age[1] > 0
    /\ ~got.loaded
    /\ got.ret # None

\* a call had nothing cached and no file, and returned None
C2_WitnessEmpty ==
    /\ got.called
    /\ got.ret = None
    /\ rates_file = None

(***************************************************************************)
(* C3: a read query served from the cache (no reload) leaves the cached    *)
(* Aggregate exactly as it was: same fields, same values, same list order. *)
(***************************************************************************)
C3_NeverMutatedInPlace ==
    [][got'.called /\ ~got'.loaded => cached_data' = cached_data]_vars


(***************************************************************************)
(* C4: whatever subset of the adapters fails, the cycle goes on to the end *)
(* and the Aggregate has total_banks = the number of results with success  *)
(* = true and all_rates = exactly the records of the successful results.   *)
(* (In phase "scraped" the next step, Rank, has no guard but the phase.)   *)
(***************************************************************************)
C4_PartialFailure ==
    /\ phase \notin {"done", "scraped"} => ENABLED (NextCycle /\ UNCHANGED <<fetch, parse, apiVars>>)
    /\ Ranked =>
          /\ ranking[1].total_banks = Cardinality(SucceededBanks)
          /\ \A x \in Range(ranking[1].all_rates) \cup SuccessfulRecords :
                Count(ranking[1].all_rates, x) = Count(get_all_rates(results), x)
          /\ \A x \in Range(ranking[1].all_rates) : x.bank_code \in SucceededBanks

\* two of three sources failed (one inside scrape, one while being built)
\* and the cycle finished with the one that succeeded
C4_Witness ==
    /\ phase = "done"
    /\ Cardinality(SucceededBanks) = 1
    /\ ranking[1].total_banks = 1
    /\ \E b \in Banks : futures[b].state = "raised"
    /\ \E r \in Range(results) : ~r.success

(***************************************************************************)
(* C5: for a fixed set of successful results, the order of all_rates,      *)
(* top_10 and every by_term list is the same whatever the order in which   *)
(* the adapter tasks completed: it is the order obtained when the tasks    *)
(* complete in submission order.                                           *)
(***************************************************************************)
C5_DeterministicMerge ==
    Ranked =>
       LET canon == get_ranking(InSubmissionOrder(results, 1), ranking[1].generated_at, FALSE)
       IN  /\ ranking[1].all_rates = canon.all_rates
           /\ ranking[1].top_10 = canon.top_10
           /\ ranking[1].by_term = canon.by_term

C7_RankingDescending ==
    /\ Ranked =>
          /\ IsRateDescending(ranking[1].all_rates)
          /\ IsRateDescending(ranking[1].top_10)
          /\ \A k \in DOMAIN ranking[1].by_term : IsRateDescending(ranking[1].by_term[k])
    /\ best # None => IsRateDescending(best[1].rates)

\* two sources succeeded, the merged list was not in rate order before the
\* sort, and get_best_rates returned several records
C7_Witness ==
    /\ phase = "done"
    /\ Cardinality(SucceededBanks) >= 2
    /\ ~IsRateDescending(get_all_rates(results))
    /\ Len(ranking[1].by_term[IntKey(30)]) >= 2
    /\ best # None
    /\ Len(best[1].rates) >= 2

(***************************************************************************)
(* C8: with records, min_rate <= average_rate <= max_rate and min_rate and *)
(* max_rate are the smallest and largest rate_ea of all_rates; without     *)
(* records all three are 0, and computing them never faults.               *)
(***************************************************************************)
C8_Statistics ==
    /\ phase = "scraped" /\ get_all_rates(results) = <<>> =>
          Statistics(get_all_rates(results), FALSE) = [average_rate |-> 0, max_rate |-> 0, min_rate |-> 0]
    /\ Ranked =>
          LET a == ranking[1].all_rates
              st == ranking[1].statistics
          IN  IF a # <<>>
              THEN /\ st.min_rate <= st.average_rate
                   /\ st.average_rate <= st.max_rate
                   /\ \E x \in Range(a) : x.rate_ea = st.min_rate
                   /\ \E x \in Range(a) : x.rate_ea = st.max_rate
                   /\ \A x \in Range(a) : st.min_rate <= x.rate_ea /\ x.rate_ea <= st.max_rate
              ELSE st.average_rate = 0 /\ st.max_rate = 0 /\ st.min_rate = 0

\* an Aggregate with records whose mean lies strictly between the extremes
C8_Witness ==
    /\ Ranked
    /\ ranking[1].all_rates # <<>>
    /\ ranking[1].statistics.min_rate < ranking[1].statistics.average_rate
    /\ ranking[1].statistics.average_rate < ranking[1].statistics.max_rate

\* an Aggregate without records (no source succeeded)
C8_WitnessEmpty ==
    /\ Ranked
    /\ ranking[1].all_rates = <<>>
    /\ ranking[1].statistics.average_rate = 0

(***************************************************************************)
(* C9: every fault met while the orchestrator runs a source, the           *)
(* construction of its adapter included, ends as a result of that source   *)
(* with success = false, no records and the fault text, and no exception   *)
(* reaches the collection loop.                                            *)
(***************************************************************************)
C9_FaultsCaptured ==
    \A b \in Banks :
       /\ futures[b].state # "raised"
       /\ collected[b] # "logged_error"
       /\ b \in Finished => ResultsOf(b) # {}
       /\ \A r \in ResultsOf(b) :
             ~r.success => r.rates = <<>> /\ r.error_message # NoMessage

(***************************************************************************)
(* C10: the fetch makes its attempts one after another; the first attempt  *)
(* that succeeds ends the call with the document; every transport failure  *)
(* is followed by another attempt until retry_attempts were made; the      *)
(* delay retry_delay is slept between two attempts and not after the last; *)
(* when all attempts failed the call returns None to its caller.           *)
(***************************************************************************)
Requests == SelectSeq(fetch.log, LAMBDA e : e.ev = "request")

Sleeps == SelectSeq(fetch.log, LAMBDA e : e.ev = "sleep")

\* C10: the trace of a fetch call follows the retry discipline stated above
C10_RetryDiscipline ==
    LET n == Len(Requests)
    IN  /\ n <= retry_attempts
        /\ fetch.pc = "request" => n = fetch.attempt
        \* only the last request made may be anything but a transport failure
        /\ \A i \in 1..(n - 1) : Requests[i].outcome \in TransportFaults
        \* the trace alternates request, sleep, request, ...
        /\ \A i \in 1..Len(fetch.log) :
              /\ (i % 2 = 1) <=> (fetch.log[i].ev = "request")
              /\ fetch.log[i].ev = "sleep" => fetch.log[i].secs = retry_delay
        /\ fetch.pc = "request" /\ n > 0 => fetch.log[Len(fetch.log)].ev = "sleep"
        /\ fetch.pc = "returned" =>
              /\ fetch.log[Len(fetch.log)].ev = "request"
              /\ Len(Sleeps) = n - 1
              /\ (fetch.ret # None) <=> (Requests[n].outcome = "ok")
              /\ fetch.ret = None =>
                    /\ n = retry_attempts
                    /\ \A i \in 1..n : Requests[i].outcome \in TransportFaults

\* every attempt failed, each in another way, and the call returned None
C10_Witness ==
    /\ fetch.pc = "returned"
    /\ fetch.ret = None
    /\ fetch.method = "post"
    /\ Len(Requests) = retry_attempts
    /\ Len(Sleeps) = retry_attempts - 1
    /\ {Requests[i].outcome : i \in 1..Len(Requests)} = TransportFaults

\* the second attempt succeeded after one failure and one delay
C10_WitnessRetrySucceeds ==
    /\ fetch.pc = "returned"
    /\ fetch.ret # None
    /\ Len(Requests) = 2
    /\ Len(Sleeps) = 1
(***************************************************************************)
(* C11: at every moment at most pool (max_workers) adapters are running,   *)
(* however many sources were submitted; a source leaves the queue only     *)
(* for a free worker, oldest first; a task is run once (queued, running,   *)
(* finished, never back); and every queued source is eventually run to its *)
(* end.                                                                    *)
(***************************************************************************)
C11_BoundedParallelism ==
    /\ [](Cardinality(Running) <= pool)
    /\ [][\A b \in Banks :
             futures'[b].state # futures[b].state =>
                \/ futures[b].state = "unsubmitted" /\ futures'[b].state = "queued"
                \/ /\ futures[b].state = "queued" /\ futures'[b].state = "running"
                   /\ Cardinality(Running) < pool
                   /\ \A i, j \in 1..Len(bank_codes) :
                         bank_codes[j] = b /\ i < j => futures[bank_codes[i]].state # "queued"
                \/ futures[b].state = "running" /\ futures'[b].state \in {"returned", "raised"}]_vars
    /\ \A b \in Banks : (futures[b].state = "queued") ~> (b \in Finished)

\* the pool is full, smaller than the number of sources, and a source waits
C11_Witness ==
    /\ pool < Len(bank_codes)
    /\ Cardinality(Running) = pool
    /\ \E b \in Banks : futures[b].state = "queued"

\* every source was run although the pool was smaller than their number
C11_WitnessAllRun ==
    /\ pool < Len(bank_codes)
    /\ phase = "done"
    /\ \A b \in Banks : b \in Finished

(***************************************************************************)
(* C12: the cycle goes idle, dispatching, collecting, merging and ranking, *)
(* persisting (current file, then snapshot), finished, in that order;      *)
(* merging, ranking and persisting start only when every submitted task    *)
(* has finished and was collected; and a cycle that was started reaches    *)
(* its end.                                                                *)
(***************************************************************************)
PhaseOrder == <<"idle", "dispatching", "collecting", "scraped", "ranked", "current_saved", "done">>

AfterCollecting == {"scraped", "ranked", "current_saved", "done"}

C12_CycleOrder ==
    /\ [][phase' # phase =>
             \E i \in 1..(Len(PhaseOrder) - 1) :
                phase = PhaseOrder[i] /\ phase' = PhaseOrder[i + 1]]_vars
    /\ [](phase \in AfterCollecting =>
             \A b \in Banks : b \in Finished /\ collected[b] # "pending")
    /\ [](ranking # None => phase \in {"ranked", "current_saved", "done"})
    /\ [](rates_file # None => phase \in {"current_saved", "done"})
    /\ [](history # <<>> => phase = "done")
    /\ (phase = "dispatching") ~> (phase = "done")

\* a cycle whose pool was smaller than the number of sources, with a task
\* that raised, reached its end with both files written
C12_Witness ==
    /\ phase = "done"
    /\ pool < Len(bank_codes)
    /\ \E b \in Banks : futures[b].state = "raised"
    /\ rates_file # None
    /\ history # <<>>

\* the step in which the save_results of request r writes its history file
WritesSnapshot(r) == refresh[r].pc = "current_saved" /\ refresh'[r].pc = "saved"

\* C13: history snapshots are append-only: the history write of every cycle
\* creates a file that was not there before, and every file that was there
\* keeps its content, whether the cycles run one after another or at the
\* same time.
C13_AppendOnlyHistory ==
    [][ /\ \A n \in DOMAIN history :
              n \in DOMAIN history' /\ history'[n] = history[n]
        /\ \A r \in DOMAIN refresh :
              WritesSnapshot(r) =>
                 /\ HistoryName(now) \notin DOMAIN history
                 /\ DOMAIN history' = DOMAIN history \cup {HistoryName(now)} ]_vars

\* the cycle has its final results and none of them is a success
ZeroSuccess == phase \in AfterCollecting /\ SucceededBanks = {}

\* a is an empty Aggregate whose by_term keys are made by Key
IsEmptyAggregate(a, Key(_)) ==
    /\ a.total_banks = 0
    /\ a.total_rates = 0
    /\ a.top_10 = <<>>
    /\ a.all_rates = <<>>
    /\ \A i \in 1..Len(STANDARD_TERMS) :
          /\ Key(STANDARD_TERMS[i]) \in DOMAIN a.by_term
          /\ a.by_term[Key(STANDARD_TERMS[i])] = <<>>

\* C14: a cycle in which no source succeeded still completes: its ranking is
\* the empty Aggregate (no banks, no rates, empty top_10 and all_rates, an
\* empty list for every standard term), the current file and the history
\* file are written with it, and the cycle reaches its end.
C14_ZeroSuccessCycle ==
    /\ [](ZeroSuccess /\ ranking # None => IsEmptyAggregate(ranking[1], IntKey))
    /\ [](ZeroSuccess /\ phase \in {"current_saved", "done"} =>
             rates_file # None /\ IsEmptyAggregate(rates_file[1], StrKey))
    /\ [](ZeroSuccess /\ phase = "done" =>
             /\ HistoryName(now) \in DOMAIN history
             /\ IsEmptyAggregate(history[HistoryName(now)], StrKey))
    /\ ZeroSuccess ~> (phase = "done")

\* every source failed, one of them while its adapter was constructed, and
\* the cycle has persisted the empty Aggregate
C14_Witness ==
    /\ phase = "done"
    /\ SucceededBanks = {}
    /\ Len(results) < Len(bank_codes)
    /\ rates_file # None
    /\ rates_file[1].total_banks = 0
    /\ history # <<>>

\* C15: every record that reaches the merge has term_days > 0 and a rate_ea
\* from 1 to 25 percent, whichever adapter produced it: a row that fails
\* either test is dropped before get_all_rates.
C15_SaneRecords ==
    parse.pc = "merged" =>
       \A i \in 1..Len(parse.all_rates) :
          /\ parse.all_rates[i].term_days > 0
          /\ parse.all_rates[i].rate_ea >= 1 * 100
          /\ parse.all_rates[i].rate_ea <= 25 * 100

\* C19: a rate that parse_rate returned, written as str(rate) + "%" and
\* parsed again, gives the same rate.
C19_ParseRateIdempotent ==
    parse.pc = "reparsed" => parse.again = parse.rate_ea

\* the text is a plain number v with 0 < v <= 1
IsFraction(text) ==
    /\ ToFloat(text) # None
    /\ ToFloat(text)[1] > 0
    /\ ToFloat(text)[1] <= FloatUnit

\* the text of the percentage 100 * v for the fraction text of v
PercentText(text) == DecimalText(ToFloat(text)[1] * 100)

\* C20: for a text that is a fraction v <= 1, both parse_rate functions
\* return what they return for the text of the percentage 100 * v ("0.085"
\* and "8.5" both give 8.50).
C20_FractionAsPercent ==
    /\ parse.pc = "row" /\ IsFraction(parse.rate_text) =>
          \A tieUp \in BOOLEAN :
             parse.rate_ea = parse_rate(PercentText(parse.rate_text), tieUp)
    /\ parse.pc = "mejorcdt" /\ IsFraction(parse.rate_text) =>
          \A tieUp \in BOOLEAN :
             parse.rate_ea = mejorcdt_parse_rate(PercentText(parse.rate_text), tieUp)

\* request r is in run_scraping(), before "_cached_data = ranking"
InRunScraping(r) == refresh[r].pc \in {"idle", "ranked", "current_saved"}

\* the response of a refresh request with the given status was just sent
RefreshAnswered(status) ==
    response # None /\ response[1].op = "refresh" /\ response[1].status = status

\* C16: a storage fault while a refresh persists: the request is answered
\* with the failure, no step it took (the fault included) changed the cached
\* Aggregate or its time, the handler is ready again, a new refresh can be
\* started and every refresh that was started can take its next step towards
\* success.
C16_StorageFault ==
    /\ [][ \A r \in DOMAIN refresh :
              InRunScraping(r) /\ refresh'[r] # refresh[r] /\ refresh'[r].pc # "saved" =>
                 cached_data' = cached_data /\ cache_time' = cache_time ]_vars
    /\ [][ \A r \in DOMAIN refresh :
              refresh[r].pc \in {"ranked", "current_saved"} /\ refresh'[r].pc = "idle" =>
                 /\ RefreshAnswered(500)'
                 /\ cached_data' = cached_data /\ cache_time' = cache_time ]_vars
    /\ [](RefreshAnswered(500) /\ refreshes < MaxCycles =>
             ENABLED (\E r \in StoreRefreshers : RefreshScrapeUpTo(r, MaxCycles)))
    /\ [](\A r \in DOMAIN refresh :
             /\ refresh[r].pc = "ranked" => ENABLED RefreshWriteCurrent(r)
             /\ refresh[r].pc = "current_saved" => ENABLED RefreshWriteHistory(r)
             /\ refresh[r].pc = "saved" => ENABLED RefreshSetData(r)
             /\ refresh[r].pc = "data_set" => ENABLED RefreshSetTime(r))

\* a refresh failed while the Aggregate of an earlier refresh is cached
C16_Witness ==
    /\ RefreshAnswered(500)
    /\ cached_data # None
    /\ cache_time # None

\* the first refresh failed after it wrote the current file and before it
\* wrote the history file, and another refresh can be made
C16_WitnessRetry ==
    /\ RefreshAnswered(500)
    /\ refreshes < MaxCycles
    /\ rates_file # None
    /\ history = <<>>

\* the bodies of the no-data result
NoDataBodies == {NoData, [error |-> "No hay datos de tasas disponibles"]}

\* C17: a read query that finds no usable Aggregate (nothing fresh in the
\* cache and RATES_FILE absent, unreadable or not JSON) answers with the
\* no-data result and does not raise; a query on an Aggregate without
\* records answers with a result of its own, not with the no-data result.
C17_NoDataResult ==
    got.called =>
       /\ ~got.raised
       /\ response[1].status # 500
       /\ got.ret = None => response[1].status = 404 /\ response[1].body \in NoDataBodies
       /\ got.ret # None => response[1].body \notin NoDataBodies

\* what /api/ranking/<t> lists for the Aggregate agg once it has gone through
\* RATES_FILE: the list under the key str(t), none when there is no such key
ListedFromFile(agg, t) ==
    LET doc == json_load(json_dump(agg))
    IN  IF StrKey(t) \in DOMAIN doc.by_term THEN doc.by_term[StrKey(t)] ELSE <<>>

\* C18: the per-term ranking query lists the same rates for an Aggregate
\* whether refresh put it into the cache or get_rates_data loaded it from
\* RATES_FILE: by_term is looked up by the term length as a string.
C18_SameByTermList ==
    (/\ got.called
     /\ got.ret # None
     /\ response[1].op = "ranking_by_term"
     /\ response[1].status = 200) =>
        response[1].body.rates = ListedFromFile(got.ret[1], response[1].body.term_days)

(***************************************************************************)
(* C21                                                                     *)
(***************************************************************************)
\* the numbers n that text states with one of the unit words after them
\* ("90 dias", "90dias"); with the empty word, every number of the text
Mentions(text, words) ==
    LET s == Lower(Strip(text))
    IN  {DigitsValue(SubSeq(s, r[1], r[2])) :
            r \in {x \in DigitRuns(s) : WordAt(s, AfterBlanks(s, x[2]), words)}}

DayCounts(text) == Mentions(text, {<<"d", "i", "a">>, <<"d", IAcute, "a">>})

MonthCounts(text) == Mentions(text, {<<"m", "e", "s">>})

YearCounts(text) == Mentions(text, {<<"a", NTilde, "o">>, <<"a", "n", "o">>})

\* C21: parse_term applies its patterns in priority order. The term of a row
\* parsed is a day count n of the text when it has one; otherwise 30*n for a
\* month count n; otherwise 365*n for a year count n; otherwise 30*n for a
\* bare integer n <= 36 and n for a larger one; it is empty when the text has
\* no digits. "90 dias" is 90, "3 meses" is 90, "1 ano" (n with tilde) is 365.
C21_TermPriority ==
    parse.pc = "row" =>
        LET text == parse.term_text
            term == parse.term_days
        IN  /\ IF DayCounts(text) # {}
                   THEN term # None /\ term[1] \in DayCounts(text)
               ELSE IF MonthCounts(text) # {}
                   THEN term # None /\ \E n \in MonthCounts(text) : term[1] = 30 * n
               ELSE IF YearCounts(text) # {}
                   THEN term # None /\ \E n \in YearCounts(text) : term[1] = 365 * n
               ELSE IF Mentions(text, {<<>>}) # {}
                   THEN term # None /\ \E n \in Mentions(text, {<<>>}) :
                           term[1] = IF n <= 36 THEN 30 * n ELSE n
               ELSE term = None
            /\ text = <<"9", "0", " ", "d", "i", "a", "s">> => term = Some(90)
            /\ text = <<"3", " ", "m", "e", "s", "e", "s">> => term = Some(90)
            /\ text = <<"1", " ", "a", NTilde, "o">> => term = Some(365)

\* a text with a month count before a day count was parsed to the day count
C21_Witness ==
    /\ parse.pc = "row"
    /\ MonthCounts(parse.term_text) = {6}
    /\ DayCounts(parse.term_text) = {15}
    /\ parse.term_days = Some(15)

\* a text with a year count and a month count was parsed to the months
C21_WitnessMonths ==
    /\ parse.pc = "row"
    /\ YearCounts(parse.term_text) = {1}
    /\ parse.term_days = Some(180)

\* a bare integer above the threshold was parsed to itself, in days
C21_WitnessBare ==
    /\ parse.pc = "row"
    /\ parse.term_text = <<"3", "7">>
    /\ parse.term_days = Some(37)

(***************************************************************************)
(* C30                                                                     *)
(***************************************************************************)
\* C30: the two term normalizers agree. The days MejorCDTScraper._parse_term
\* returns for a text are the days BaseScraper._parse_term returns for it,
\* for every text, bare integers included.
C30_SameTermNormalizer ==
    parse.pc = "mejorcdt_term" => parse.term_days = parse_term(parse.term_text)

(***************************************************************************)
(* C24                                                                     *)
(***************************************************************************)
\* the row Banco X, 90 dias, 9,50% of the table-extraction scenario
IsScenarioRow ==
    /\ parse.term_text = <<"9", "0", " ", "d", "i", "a", "s">>
    /\ parse.rate_text = <<"9", ",", "5", "0", "%">>

\* C24: the table strategy, of the generic adapter and of the consolidator,
\* emits exactly one record for a data row whose term cell and rate cell both
\* normalize to a valid value (a term that is not 0, a rate that is not 0 and,
\* for the consolidator, within its range) and none for any other row; the
\* scenario row yields exactly one record, with term_days 90 and rate_ea 9.50.
C24_OneRecordPerValidRow ==
    parse.pc \in {"row", "table_row"} =>
        LET valid == /\ Truthy(parse.term_days)
                     /\ Truthy(parse.rate_ea)
                     /\ (parse.pc = "table_row" =>
                            1 * 100 < parse.rate_ea[1] /\ parse.rate_ea[1] < 25 * 100)
        IN  /\ Len(parse.rates) = IF valid THEN 1 ELSE 0
            /\ IsScenarioRow =>
                  /\ Len(parse.rates) = 1
                  /\ parse.rates[1].term_days = 90
                  /\ parse.rates[1].rate_ea = 950

\* the same statement for the generic adapter alone, and for the scenario row
\* in the consolidator
C24_GenericAndScenario ==
    /\ parse.pc = "row" =>
          Len(parse.rates) = IF Truthy(parse.term_days) /\ Truthy(parse.rate_ea) THEN 1 ELSE 0
    /\ (parse.pc \in {"row", "table_row"} /\ IsScenarioRow) =>
          /\ Len(parse.rates) = 1
          /\ parse.rates[1].term_days = 90
          /\ parse.rates[1].rate_ea = 950

(***************************************************************************)
(* C25                                                                     *)
(***************************************************************************)
\* the longest standard term
LongestStandardTerm ==
    CHOOSE t \in Range(STANDARD_TERMS) : \A u \in Range(STANDARD_TERMS) : u <= t

\* C25: every record of the card strategy and of the free-text strategy has
\* the default term, which is the longest of STANDARD_TERMS, and neither a
\* minimum nor a maximum amount.
C25_DefaultTermIsLongest ==
    parse.pc \in {"card", "text"} =>
        \A i \in 1..Len(parse.rates) :
            /\ parse.rates[i].term_days = LongestStandardTerm
            /\ parse.rates[i].min_amount = None
            /\ parse.rates[i].max_amount = None

(***************************************************************************)
(* C29                                                                     *)
(***************************************************************************)
\* the calendar month i months before month m of year y, as <<month, year>>
MonthsBefore(m, y, i) ==
    LET k == (y * 12 + (m - 1)) - i
    IN  <<(k % 12) + 1, k \div 12>>

\* C29: scrape_multiple_months(num_months) visits, for each i below
\* num_months, the calendar month exactly i months before the current one:
\* the month number is within 1..12, the year goes down by one for each year
\* boundary crossed, and the month lookup never faults.
C29_MonthsBack ==
    parse.pc \in {"months", "months_returned", "months_raised"} =>
        /\ parse.pc # "months_raised"
        /\ \A k \in 1..Len(parse.visited) :
              /\ parse.visited[k][1] \in 1..12
              /\ parse.visited[k] = MonthsBefore(parse.now_month, parse.now_year, k - 1)

\* the same for the calls with at most twelve months
C29_WithinOneYear ==
    (parse.pc \in {"months", "months_returned", "months_raised"} /\ parse.num_months <= 12) =>
        /\ parse.pc # "months_raised"
        /\ \A k \in 1..Len(parse.visited) :
              parse.visited[k] = MonthsBefore(parse.now_month, parse.now_year, k - 1)

(***************************************************************************)
(* C26                                                                     *)
(***************************************************************************)
\* the records of all_rates with the term t, in the order of all_rates
OfTerm(all_rates, t) == SelectSeq(all_rates, LAMBDA r : r.term_days = t)

\* C26: in the Aggregate a cycle builds, and in the document written from it,
\* top_10 is the first min(10, n) records of all_rates, by_term has under each
\* of the seven standard terms exactly the records of all_rates with that
\* term, in the order of all_rates (an empty list when there is none), and
\* total_rates is the length of all_rates.
C26_RankingShape ==
    /\ Ranked =>
          LET a == ranking[1]
              n == Len(a.all_rates)
          IN  /\ a.top_10 = SubSeq(a.all_rates, 1, IF n < 10 THEN n ELSE 10)
              /\ a.total_rates = n
              /\ \A i \in 1..Len(STANDARD_TERMS) :
                    /\ IntKey(STANDARD_TERMS[i]) \in DOMAIN a.by_term
                    /\ a.by_term[IntKey(STANDARD_TERMS[i])] = OfTerm(a.all_rates, STANDARD_TERMS[i])
    /\ rates_file # None =>
          LET d == rates_file[1]
              n == Len(d.all_rates)
          IN  /\ d.top_10 = SubSeq(d.all_rates, 1, IF n < 10 THEN n ELSE 10)
              /\ d.total_rates = n
              /\ \A i \in 1..Len(STANDARD_TERMS) :
                    /\ StrKey(STANDARD_TERMS[i]) \in DOMAIN d.by_term
                    /\ d.by_term[StrKey(STANDARD_TERMS[i])] = OfTerm(d.all_rates, STANDARD_TERMS[i])

\* a cycle ranked more than ten records: top_10 stops at ten, the 30 day list
\* has several records with different rates and the 720 day list is empty
C26_Witness ==
    /\ Ranked
    /\ Len(ranking[1].all_rates) > 10
    /\ Len(ranking[1].top_10) = 10
    /\ Len(ranking[1].by_term[IntKey(30)]) >= 2
    /\ \E i, j \in 1..Len(ranking[1].by_term[IntKey(30)]) :
          ranking[1].by_term[IntKey(30)][i].rate_ea # ranking[1].by_term[IntKey(30)][j].rate_ea
    /\ ranking[1].by_term[IntKey(720)] = <<>>
    /\ rates_file # None

(***************************************************************************)
(* C22                                                                     *)
(***************************************************************************)
\* /api/compare answered with a comparison
Compared ==
    /\ response # None
    /\ response[1].op = "compare"
    /\ response[1].status = 200

\* the records of all_rates the request asks to compare
Matching(all_rates, req) ==
    SelectSeq(all_rates, LAMBDA r : /\ r.term_days = req.term_days
                                    /\ (req.banks # {} => r.bank_code \in req.banks))

\* how many elements of s are of bank b at rate r
EntriesOf(s, b, r) == Cardinality({j \in 1..Len(s) : s[j].bank_code = b /\ s[j].rate_ea = r})

\* C22: the comparison has exactly one entry for each record of all_rates of
\* the requested term (and of a bank of the filter, when one is given), the
\* entries are in descending order of net_profit, and difference_from_best of
\* each entry is the net_profit of the first entry minus its own: 0 for the
\* first entry, never negative.
C22_Comparison ==
    Compared =>
        LET cs == response[1].body.comparisons
            m == Matching(got.ret[1].all_rates, response[1].request)
        IN  /\ Len(cs) = Len(m)
            /\ response[1].body.count = Len(m)
            /\ \A i \in 1..Len(m) :
                  EntriesOf(cs, m[i].bank_code, m[i].rate_ea)
                     = EntriesOf(m, m[i].bank_code, m[i].rate_ea)
            /\ \A i \in 1..Len(cs) - 1 : cs[i].net_profit >= cs[i + 1].net_profit
            /\ \A i \in 1..Len(cs) :
                  /\ cs[i].difference_from_best = cs[1].net_profit - cs[i].net_profit
                  /\ cs[i].difference_from_best >= 0
            /\ cs # <<>> => cs[1].difference_from_best = 0

\* three sources were compared at one term, each with another net_profit
C22_Witness ==
    /\ Compared
    /\ response[1].request.banks = {}
    /\ Len(response[1].body.comparisons) = 3
    /\ response[1].body.comparisons[2].difference_from_best > 0
    /\ response[1].body.comparisons[3].difference_from_best
          > response[1].body.comparisons[2].difference_from_best

\* a bank filter left a record of the requested term out
C22_WitnessFilter ==
    /\ Compared
    /\ response[1].request.banks # {}
    /\ Len(response[1].body.comparisons) = 2
    /\ Len(SelectSeq(got.ret[1].all_rates,
                     LAMBDA r : r.term_days = response[1].request.term_days)) = 3

\* rounding gave two sources the same net_profit: a gap of 0 below the first
C22_WitnessTie ==
    /\ Compared
    /\ Len(response[1].body.comparisons) >= 2
    /\ response[1].body.comparisons[2].difference_from_best = 0
    /\ response[1].body.comparisons[2].rate_ea # response[1].body.comparisons[1].rate_ea

(***************************************************************************)
(* C23                                                                     *)
(***************************************************************************)
\* x and y have the same source id, term and rate
SameOffer(x, y) ==
    /\ x.bank_code = y.bank_code
    /\ x.term_days = y.term_days
    /\ x.rate_ea = y.rate_ea

\* the position in s of the first record with the offer of x
FirstSeen(s, x) ==
    CHOOSE i \in 1..Len(s) : SameOffer(s[i], x) /\ \A j \in 1..(i - 1) : ~SameOffer(s[j], x)

\* C23: the generic adapter reports success exactly when the fetch succeeded
\* and a record is left after the dedup; when the fetch failed or no record
\* resulted it reports success=false with no records and an error message;
\* the records reported are the first record of each (source id, term_days,
\* rate_ea) among those parsed, in first-seen order, no two with the same key.
C23_GenericResult ==
    parse.pc = "scraped" =>
        LET r == parse.result
            all == parse.all_rates
        IN  /\ r.success <=> (parse.fetched /\ all # <<>>)
            /\ r.success <=> r.rates # <<>>
            /\ ~r.success => r.error_message \notin {NoMessage, ""}
            /\ ~parse.fetched =>
                  Len(SelectSeq(fetch.log, LAMBDA e : e.ev = "request")) = retry_attempts
            /\ \A i, j \in 1..Len(r.rates) : i # j => ~SameOffer(r.rates[i], r.rates[j])
            /\ \A k \in 1..Len(all) : \E i \in 1..Len(r.rates) : SameOffer(r.rates[i], all[k])
            /\ \A i \in 1..Len(r.rates) :
                  /\ \E k \in 1..Len(all) : SameOffer(all[k], r.rates[i])
                  /\ r.rates[i] = all[FirstSeen(all, r.rates[i])]
            /\ \A i, j \in 1..Len(r.rates) :
                  i < j => FirstSeen(all, r.rates[i]) < FirstSeen(all, r.rates[j])

\* a page whose rows gave the same offer twice and another one: two records
\* are reported
C23_Witness ==
    /\ parse.pc = "scraped"
    /\ parse.result.success
    /\ Len(parse.all_rates) = 3
    /\ Len(parse.result.rates) = 2
    /\ SameOffer(parse.all_rates[1], parse.all_rates[3])

\* every attempt failed: the failure is reported
C23_WitnessNoPage ==
    /\ parse.pc = "scraped"
    /\ ~parse.fetched
    /\ ~parse.result.success

\* the page came at the last attempt and no row gave a record
C23_WitnessNoRates ==
    /\ parse.pc = "scraped"
    /\ parse.fetched
    /\ fetch.attempt = retry_attempts - 1
    /\ ~parse.result.success
    /\ parse.result.error_message = "No se encontraron tasas"

(***************************************************************************)
(* C27                                                                     *)
(***************************************************************************)
\* no refresh request is under way and one has been made
RefreshesCompleted ==
    /\ refreshes > 0
    /\ \A r \in DOMAIN refresh : refresh[r].pc = "idle"

\* every refresh request made wrote its snapshot: none met a storage fault
AllSnapshotsWritten == Cardinality(DOMAIN history) = refreshes

\* C27: once every refresh request made has completed (each of them with
\* success), the Aggregate in the cache is the one written to the
\* current-state file: the cache and the file never end up with the results
\* of two different cycles.
C27_CacheIsFile ==
    (RefreshesCompleted /\ AllSnapshotsWritten /\ cached_data # None /\ rates_file # None) =>
        json_dump(cached_data[1]) = rates_file[1]

(***************************************************************************)
(* C28                                                                     *)
(***************************************************************************)
\* a handler called get_rates_data and it went to RATES_FILE
FellBackToStorage == got.called /\ (got.loaded \/ got.raised)

\* C28: a get() that falls back to storage while the cycle of a refresh is
\* writing the current-state file returns the complete Aggregate persisted
\* before or the complete new one; it never finds an empty or partly written
\* file and never faults.
C28_ReadDuringWrite ==
    \A r \in DOMAIN refresh :
        (refresh[r].pc = "current_open" /\ FellBackToStorage) =>
            /\ ~got.raised
            /\ got.ret # None
            /\ got.ret[1] \in {json_load(EarlierDocument),
                               json_load(json_dump(refresh[r].ranking[1]))}

====
